---- MODULE Spec2Model ----
(***************************************************************************)
(* A model of pymclevel/nbt.py: the Named Binary Tag value model, the      *)
(* binary encoder and decoder, the littleEndianNBT scope and the container *)
(* operations of TAG_Compound and TAG_List.                                *)
(*                                                                         *)
(* Representation.                                                         *)
(*   - A byte is a number in 0..255; a buffer is a sequence of bytes.      *)
(*   - A text (a tag name, a TAG_String value) is the sequence of its      *)
(*     character codes.  The texts of the model are ASCII, for which       *)
(*     encode('utf-8') yields the same codes as bytes.                     *)
(*   - A fixed-width number (the payload of TAG_Byte .. TAG_Double, one    *)
(*     array element) is the sequence of its base-256 digits, most         *)
(*     significant first: two's complement for the integers, the IEEE-754  *)
(*     bit pattern for the floats.  struct.pack with ">" writes the digits *)
(*     as they are, with "<" it writes them reversed.                      *)
(*   - A tag is a record [id, name, value]; a TAG_List also carries        *)
(*     list_type, an array also carries dtype, the byte order its numpy    *)
(*     array got from the class attribute when the value was set ("|" for  *)
(*     the one-byte elements of TAG_Byte_Array).                           *)
(***************************************************************************)
EXTENDS Integers, Sequences, FiniteSets, TLC

\* ------------------------------------------------------------------------
\* Bounds of the model
\* ------------------------------------------------------------------------

\* Most children the root TAG_Compound of a constructed tree gets (the
\* children themselves hold up to six tags).
MaxChildren == 1

\* Most littleEndianNBT scopes entered at the same time.
MaxDepth == 2

\* Longest raw (not produced by save) buffer handed to load.
MaxRaw == 4

\* Most elements the TAG_List at hand gets.
MaxListLen == 3

\* Most tag objects alive at a time: the two the caller constructs and
\* the ones __setitem__ and update make.
MaxObjs == 4

\* Most children the TAG_Compound at hand gets.
MaxKids == 2

\* ------------------------------------------------------------------------
\* Tag ids (nbt.py lines 51-62)
\* ------------------------------------------------------------------------

TAG_BYTE == 1

TAG_SHORT == 2

TAG_INT == 3

TAG_LONG == 4

TAG_FLOAT == 5

TAG_DOUBLE == 6

TAG_BYTE_ARRAY == 7

TAG_STRING == 8

TAG_LIST == 9

TAG_COMPOUND == 10

TAG_INT_ARRAY == 11

TAG_LONG_ARRAY == 12

\* The keys of tag_classes (lines 812-817).
tag_classes == TAG_BYTE..TAG_LONG_ARRAY

\* The classes that keep TAG_Value's load_from, write_value and eq.
ScalarIds == TAG_BYTE..TAG_DOUBLE

ArrayIds == {TAG_BYTE_ARRAY, TAG_INT_ARRAY, TAG_LONG_ARRAY}

\* struct.Struct(fmt).size of the six primitive formats b h i q f d.
FmtSize(id) ==
    CASE id = TAG_BYTE -> 1
      [] id = TAG_SHORT -> 2
      [] id = TAG_INT -> 4
      [] id = TAG_LONG -> 8
      [] id = TAG_FLOAT -> 4
      [] id = TAG_DOUBLE -> 8

\* dtype.itemsize of uint8, u4, u8.
ItemSize(id) ==
    CASE id = TAG_BYTE_ARRAY -> 1
      [] id = TAG_INT_ARRAY -> 4
      [] id = TAG_LONG_ARRAY -> 8

\* ------------------------------------------------------------------------
\* Sequences, Python slices, digits
\* ------------------------------------------------------------------------

Min(a, b) == IF a < b THEN a ELSE b

Max(a, b) == IF a > b THEN a ELSE b

Rev(s) == [i \in 1..Len(s) |-> s[Len(s) + 1 - i]]

RECURSIVE Concat(_)
\* The concatenation of a sequence of sequences.
Concat(ss) == IF ss = <<>> THEN <<>> ELSE Head(ss) \o Concat(Tail(ss))

\* A Python slice bound: a negative one counts from the end, and both are
\* clamped to the sequence.
SliceBound(i, n) == IF i < 0 THEN Max(i + n, 0) ELSE Min(i, n)

\* s[lo:hi] of Python.
PySlice(s, lo, hi) ==
    LET a == SliceBound(lo, Len(s))
        b == SliceBound(hi, Len(s))
    IN  IF a < b THEN SubSeq(s, a + 1, b) ELSE <<>>

\* s[lo:] of Python.
PyFrom(s, lo) == PySlice(s, lo, Len(s))

\* The w digits of n, for 0 <= n < 256^w and w <= 4.
DigitsOf(n, w) == [i \in 1..w |-> (n \div (256 ^ (w - i))) % 256]

\* The unsigned number two digits stand for ("H").
U16(d) == d[1] * 256 + d[2]

\* The signed number four digits stand for ("i").
I32(d) ==
    (IF d[1] >= 128 THEN d[1] - 256 ELSE d[1]) * 16777216
        + d[2] * 65536 + d[3] * 256 + d[4]

\* struct.pack / unpack of one number under a byte order: ">" keeps the
\* digits, "<" reverses them.
Pack(order, digits) == IF order = "<" THEN Rev(digits) ELSE digits

Unpack(order, bytes) == IF order = "<" THEN Rev(bytes) ELSE bytes

\* ------------------------------------------------------------------------
\* The endian profile: the module globals and class attributes that
\* littleEndianNBT rebinds.
\* ------------------------------------------------------------------------

\* The profile the module is loaded with (lines 189-260, 352, 370, 441,
\* 452 and 303): write_string and write_value name the function bound.
BigEndianProfile ==
    [string_len_fmt |-> ">",
     fmt |-> [id \in ScalarIds |-> ">"],
     int_dtype |-> ">",
     long_dtype |-> ">",
     write_string |-> "write_string",
     write_value |-> "TAG_Byte_Array.write_value"]

\* The byte order a bound writer function packs its length prefix with.
WriterOrder(f) ==
    IF f \in {"override_write_string", "override_byte_array_write_value"}
    THEN "<" ELSE ">"

\* What littleEndianNBT sets before its yield (lines 908-920).
LittleEndianSettings ==
    [string_len_fmt |-> "<",
     fmt |-> [id \in ScalarIds |-> "<"],
     int_dtype |-> "<",
     long_dtype |-> "<",
     write_string |-> "override_write_string",
     write_value |-> "override_byte_array_write_value"]

\* What littleEndianNBT sets after its yield (lines 922-932).
ResetSettings ==
    [string_len_fmt |-> ">",
     fmt |-> [id \in ScalarIds |-> ">"],
     int_dtype |-> ">",
     long_dtype |-> ">",
     write_string |-> "reset_write_string",
     write_value |-> "reset_byte_array_write_value"]

\* The byte orders a profile holds: its formats, its dtypes and the length
\* prefixes of its two writers.
ProfileOrders(P) ==
    {P.string_len_fmt, P.int_dtype, P.long_dtype,
     WriterOrder(P.write_string), WriterOrder(P.write_value)}
        \cup {P.fmt[id] : id \in ScalarIds}

IsBigEndian(P) == ProfileOrders(P) = {">"}

IsLittleEndian(P) == ProfileOrders(P) = {"<"}

\* The dtype attribute of an array class under a profile.
ClassDtype(id, P) ==
    CASE id = TAG_BYTE_ARRAY -> "|"
      [] id = TAG_INT_ARRAY -> P.int_dtype
      [] id = TAG_LONG_ARRAY -> P.long_dtype

\* ------------------------------------------------------------------------
\* The binary encoder
\* ------------------------------------------------------------------------

\* write_tag: the tag id as one byte.
write_tag(tag) == <<tag.id>>

\* write_string and its two replacements: a 16-bit length, then the bytes.
\* (The "h" format refuses lengths above 32767; the texts of the model are
\* far shorter.)
write_string(string, P) ==
    Pack(WriterOrder(P.write_string), DigitsOf(Len(string), 2)) \o string

\* write_name.
write_name(tag, P) == write_string(tag.name, P)

\* TAG_Byte_Array.write_value and its replacements: the element count under
\* the writer's byte order, then value.tostring(), the elements in the byte
\* order of the array's own dtype.
array_write_value(tag, P) ==
    Pack(WriterOrder(P.write_value), DigitsOf(Len(tag.value), 4))
        \o Concat([i \in 1..Len(tag.value) |-> Pack(tag.dtype, tag.value[i])])

RECURSIVE write_value(_, _)
\* write_value of every class.
write_value(tag, P) ==
    CASE tag.id \in ScalarIds -> Pack(P.fmt[tag.id], tag.value)
      [] tag.id = TAG_STRING -> write_string(tag.value, P)
      [] tag.id \in ArrayIds -> array_write_value(tag, P)
      [] tag.id = TAG_LIST ->
            <<tag.list_type>>
                \o Pack(P.fmt[TAG_INT], DigitsOf(Len(tag.value), 4))
                \o Concat([i \in 1..Len(tag.value) |->
                              write_value(tag.value[i], P)])
      [] tag.id = TAG_COMPOUND ->
            Concat([i \in 1..Len(tag.value) |->
                       write_tag(tag.value[i])
                           \o write_name(tag.value[i], P)
                           \o write_value(tag.value[i], P)])
                \o <<0>>

\* TAG_Compound.save(compressed=False) with no file: the bytes returned.
save(tag, P) == write_tag(tag) \o write_name(tag, P) \o write_value(tag, P)

\* ------------------------------------------------------------------------
\* TAG_List as a mutable sequence
\* ------------------------------------------------------------------------
\* An operation on a list gives Outcome(self, exc): the list as the call
\* leaves it, and the exception that ends the call ("none" when it returns).

Outcome(self, exc) == [self |-> self, exc |-> exc]

\* TAG_List.check_tag: TRUE when the tag is of the list's kind, FALSE when
\* TypeError is raised.
check_tag(self, value) == value.id = self.list_type

\* self.value = val on a TAG_List, the value setter over data_type:
\* list_type is taken from the first element before the assert looks at the
\* elements, and _value is assigned only when the assert passes.
list_set_value(self, val) ==
    LET typed == IF val # <<>> THEN [self EXCEPT !.list_type = val[1].id]
                 ELSE self
    IN  IF \A i \in 1..Len(val) : val[i].id = typed.list_type
        THEN Outcome([typed EXCEPT !.value = val], "none")
        ELSE Outcome(typed, "AssertionError")

\* TAG_List(value, name, list_type): name, list_type, then the value setter
\* on value or [].
TAG_List_init(value, name, list_type) ==
    list_set_value([id |-> TAG_LIST, name |-> name, list_type |-> list_type,
                    value |-> <<>>], value)

\* list.insert(index, x) of Python: the index is clamped like a slice
\* bound.
PyInsert(s, index, x) ==
    LET k == SliceBound(index, Len(s))
    IN  SubSeq(s, 1, k) \o <<x>> \o SubSeq(s, k + 1, Len(s))

\* The place a Python index names in a sequence of n items, from 0; it is
\* in range when it lies in 0..n-1.
PyIndex(i, n) == IF i < 0 THEN i + n ELSE i

\* TAG_List.insert: an empty list takes the kind of the tag, any other
\* list checks it; the tag loses its name and goes in.
list_insert(self, index, value) ==
    IF Len(self.value) # 0 /\ ~check_tag(self, value)
    THEN Outcome(self, "TypeError")
    ELSE Outcome([self EXCEPT
                     !.list_type = IF Len(self.value) = 0 THEN value.id ELSE @,
                     !.value = PyInsert(@, index, [value EXCEPT !.name = <<>>])],
                 "none")

\* MutableSequence.append: insert at len(self).
list_append(self, value) == list_insert(self, Len(self.value), value)

\* TAG_List.__setitem__ with an integer index.
list_setitem(self, index, value) ==
    IF ~check_tag(self, value) THEN Outcome(self, "TypeError")
    ELSE IF PyIndex(index, Len(self.value)) \notin 0..(Len(self.value) - 1)
    THEN Outcome(self, "IndexError")
    ELSE Outcome([self EXCEPT
                     !.value[PyIndex(index, Len(self.value)) + 1] = value],
                 "none")

\* TAG_List.__setitem__ with the slice lo:hi and a list of tags.
list_setslice(self, lo, hi, values) ==
    IF \E i \in 1..Len(values) : ~check_tag(self, values[i])
    THEN Outcome(self, "TypeError")
    ELSE LET n == Len(self.value)
             a == SliceBound(lo, n)
             b == Max(SliceBound(hi, n), a)
         IN  Outcome([self EXCEPT
                         !.value = SubSeq(@, 1, a) \o values \o SubSeq(@, b + 1, n)],
                     "none")

\* TAG_List.__delitem__ with an integer index.
list_delitem(self, index) ==
    LET n == Len(self.value)
        k == PyIndex(index, n)
    IN  IF k \notin 0..(n - 1) THEN Outcome(self, "IndexError")
        ELSE Outcome([self EXCEPT
                         !.value = SubSeq(@, 1, k) \o SubSeq(@, k + 2, n)],
                     "none")

\* ------------------------------------------------------------------------
\* The binary decoder
\* ------------------------------------------------------------------------
\* A load_from returns Loaded(tag, offset), the tag and the ctx.offset it
\* leaves, or Raised(exc), the exception that ends the call.

Loaded(tag, offset) == [ok |-> TRUE, tag |-> tag, offset |-> offset]

Raised(exc) == [ok |-> FALSE, exc |-> exc]

\* unicode(str): the ASCII codec accepts the codes below 128 only.
IsAscii(bytes) == \A i \in 1..Len(bytes) : bytes[i] < 128

\* load_string with the length format written into it ("<H") instead of
\* read from string_len_fmt.
load_string_hardcoded(data, offset, P) ==
    LET rest == PyFrom(data, offset) IN
    IF Len(rest) < 2 THEN Raised("struct.error")
    ELSE LET string_len == U16(Unpack("<", SubSeq(rest, 1, 2)))
         IN  Loaded(PySlice(rest, 2, string_len + 2), offset + string_len + 2)

\* load_string: the 16-bit length under string_len_fmt, then that many
\* bytes or as many as the slice still holds; the offset moves by the
\* length read either way.
load_string(data, offset, P) ==
    LET rest == PyFrom(data, offset) IN
    IF Len(rest) < 2 THEN Raised("struct.error")
    ELSE LET string_len == U16(Unpack(P.string_len_fmt, SubSeq(rest, 1, 2)))
         IN  Loaded(PySlice(rest, 2, string_len + 2), offset + string_len + 2)

\* TAG_Value.load_from for the six primitive classes (DEBUG_PE is False:
\* the unpack error is raised again).
scalar_load_from(id, data, offset, P) ==
    LET rest == PyFrom(data, offset) IN
    IF Len(rest) < FmtSize(id) THEN Raised("struct.error")
    ELSE Loaded([id |-> id, name |-> <<>>,
                 value |-> Unpack(P.fmt[id], SubSeq(rest, 1, FmtSize(id)))],
                offset + FmtSize(id))

\* TAG_String.load_from: load_string, then data_type decodes the bytes.
\* (UTF-8 is modelled on the ASCII range, where it is the identity; a byte
\* above 127 is taken as an invalid sequence.)
string_load_from(data, offset, P) ==
    LET s == load_string(data, offset, P) IN
    IF ~s.ok THEN s
    ELSE IF ~IsAscii(s.tag) THEN Raised("UnicodeDecodeError")
    ELSE Loaded([id |-> TAG_STRING, name |-> <<>>, value |-> s.tag], s.offset)

\* The stop index string_len * itemsize + 4 of the array slice, clamped to
\* the slice when it lies behind its end.
ArrayStop(string_len, itemsize, n) ==
    IF string_len >= n THEN n ELSE string_len * itemsize + 4

\* TAG_Byte_Array.load_from (and its subclasses): the signed count under
\* TAG_Int.fmt, then fromstring of the slice, which refuses a size that
\* is no multiple of the element size and takes fewer elements when the
\* slice is short.
array_load_from(id, data, offset, P) ==
    LET rest == PyFrom(data, offset) IN
    IF Len(rest) < 4 THEN Raised("struct.error")
    ELSE LET string_len == I32(Unpack(P.fmt[TAG_INT], SubSeq(rest, 1, 4)))
             w == ItemSize(id)
             raw == PySlice(rest, 4, ArrayStop(string_len, w, Len(rest)))
         IN  IF Len(raw) % w # 0 THEN Raised("ValueError")
             ELSE Loaded([id |-> id, name |-> <<>>,
                          value |-> [i \in 1..(Len(raw) \div w) |->
                                       Unpack(ClassDtype(id, P),
                                              SubSeq(raw, (i - 1) * w + 1, i * w))],
                          dtype |-> ClassDtype(id, P)],
                         offset + string_len * w + 4)

RECURSIVE load_from(_, _, _, _)
RECURSIVE list_load_elements(_, _, _, _, _, _)
RECURSIVE compound_load_loop(_, _, _, _)

\* The loop of TAG_List.load_from: list_length times load one element of
\* the declared kind and append it.
list_load_elements(self, left, wire_type, data, offset, P) ==
    IF left <= 0 THEN Loaded(self, offset)
    ELSE IF wire_type \notin tag_classes THEN Raised("KeyError")
    ELSE LET r == load_from(wire_type, data, offset, P) IN
         IF ~r.ok THEN r
         ELSE LET a == list_append(self, r.tag) IN
              IF a.exc # "none" THEN Raised(a.exc)
              ELSE list_load_elements(a.self, left - 1, wire_type, data,
                                      r.offset, P)

\* The place struct.unpack_from(data, offset) reads at: a negative offset
\* counts from the end.
UnpackAt(offset, n) == IF offset < 0 THEN offset + n ELSE offset

\* TAG_List.load_from: the element kind byte, the signed count under
\* TAG_Int.fmt, the elements.
list_load_from(data, offset, P) ==
    IF offset >= Len(data) \/ offset < 0 - Len(data) THEN Raised("IndexError")
    ELSE LET list_type == data[SliceBound(offset, Len(data)) + 1]
             at == UnpackAt(offset + 1, Len(data))
         IN
         IF at < 0 \/ Len(data) - at < 4 THEN Raised("struct.error")
         ELSE LET list_length ==
                      I32(Unpack(P.fmt[TAG_INT], SubSeq(data, at + 1, at + 4)))
              IN  list_load_elements(
                      [id |-> TAG_LIST, name |-> <<>>,
                       list_type |-> list_type, value |-> <<>>],
                      list_length, list_type, data, offset + 5, P)

\* The loop of TAG_Compound.load_from: while bytes are left, read a tag id
\* (zero ends the compound), the name, the payload; name the tag (unicode
\* refuses non-ASCII bytes) and append it to _value.  When the bytes run
\* out the loop ends and the compound is returned as it stands.
compound_load_loop(self, data, offset, P) ==
    IF ~(offset < Len(data)) THEN Loaded(self, offset)
    ELSE IF offset < 0 - Len(data) THEN Raised("IndexError")
    ELSE LET tag_type == data[SliceBound(offset, Len(data)) + 1] IN
         IF tag_type = 0 THEN Loaded(self, offset + 1)
         ELSE LET tag_name == load_string(data, offset + 1, P) IN
              IF ~tag_name.ok THEN tag_name
              ELSE IF tag_type \notin tag_classes THEN Raised("KeyError")
              ELSE LET r == load_from(tag_type, data, tag_name.offset, P) IN
                   IF ~r.ok THEN r
                   ELSE IF ~IsAscii(tag_name.tag)
                        THEN Raised("UnicodeDecodeError")
                   ELSE compound_load_loop(
                            [self EXCEPT !.value =
                                Append(@, [r.tag EXCEPT !.name = tag_name.tag])],
                            data, r.offset, P)

\* tag_classes[tag_type].load_from(ctx).
load_from(id, data, offset, P) ==
    CASE id \in ScalarIds -> scalar_load_from(id, data, offset, P)
      [] id = TAG_STRING -> string_load_from(data, offset, P)
      [] id \in ArrayIds -> array_load_from(id, data, offset, P)
      [] id = TAG_LIST -> list_load_from(data, offset, P)
      [] id = TAG_COMPOUND ->
            compound_load_loop([id |-> TAG_COMPOUND, name |-> <<>>,
                                value |-> <<>>], data, offset, P)

\* _load_buffer: an empty buffer and a first byte other than 10 are
\* refused.  The message of the second refusal formats data[:4] viewed
\* as one uint32, and view raises ValueError for fewer than four bytes,
\* before NBTFormatError is built.  Then the root name and the root
\* compound; a name unicode refuses is dropped.
_load_buffer(buf, P) ==
    IF Len(buf) = 0 THEN Raised("NBTFormatError")
    ELSE IF buf[1] # TAG_COMPOUND
         THEN IF Len(PySlice(buf, 0, 4)) % 4 # 0 THEN Raised("ValueError")
              ELSE Raised("NBTFormatError")
    ELSE LET tag_name == load_string(buf, 1, P) IN
         IF ~tag_name.ok THEN tag_name
         ELSE LET r == load_from(TAG_COMPOUND, buf, tag_name.offset, P) IN
              IF ~r.ok THEN r
              ELSE Loaded([r.tag EXCEPT !.name =
                              IF IsAscii(tag_name.tag) THEN tag_name.tag ELSE @],
                          r.offset)

\* try_gunzip: gunzip raises IOError for data without the gzip magic
\* 1f 8b, and the data is used as it is.  No buffer of the model starts
\* with the magic.
try_gunzip(data) == data

\* load(buf=data).
load(buf, P) == _load_buffer(try_gunzip(buf), P)

\* ------------------------------------------------------------------------
\* Structural equality: eq and ne
\* ------------------------------------------------------------------------
\* A call returns "True" or "False", or ends with an exception: "raise".

IntegerIds == {TAG_BYTE, TAG_SHORT, TAG_INT, TAG_LONG}

FloatIds == {TAG_FLOAT, TAG_DOUBLE}

\* The digits of a two's complement number widened to eight digits.
SignExtend(d) ==
    [i \in 1..(8 - Len(d)) |-> IF d[1] >= 128 THEN 255 ELSE 0] \o d

\* The binary64 digits of the number four binary32 digits stand for (zero
\* and the normal numbers).
WidenFloat(d) ==
    LET s == d[1] \div 128
        e == (d[1] % 128) * 2 + d[2] \div 128
        m == (d[2] % 128) * 65536 + d[3] * 256 + d[4]
        e64 == IF e = 0 THEN 0 ELSE e + 896
    IN  <<s * 128 + e64 \div 16,
          (e64 % 16) * 16 + m \div 524288,
          (m \div 2048) % 256,
          (m \div 8) % 256,
          (m % 8) * 32, 0, 0, 0>>

\* The binary64 digits of a float payload.
AsDouble(id, d) == IF id = TAG_FLOAT THEN WidenFloat(d) ELSE d

RECURSIVE Log2(_)
\* The place of the highest set bit of n >= 1.
Log2(n) == IF n < 2 THEN 0 ELSE 1 + Log2(n \div 2)

\* The binary64 digits of an integer n with |n| < 2^20.
DoubleOfInt(n) ==
    IF n = 0 THEN <<0, 0, 0, 0, 0, 0, 0, 0>>
    ELSE LET a == IF n < 0 THEN 0 - n ELSE n
             p == Log2(a)
             e64 == 1023 + p
             m == (a - 2 ^ p) * 2 ^ (20 - p)
         IN  <<(IF n < 0 THEN 128 ELSE 0) + e64 \div 16,
               (e64 % 16) * 16 + m \div 65536,
               (m \div 256) % 256,
               m % 256, 0, 0, 0, 0>>

\* The number the digits of a small integer payload stand for (the
\* integers of the model lie in the 32-bit range).
IntOf(d) == I32(SubSeq(SignExtend(d), 5, 8))

\* self.value == other.value of Python for two tags that are scalars or
\* strings: texts compare as texts, numbers by value whatever their kinds,
\* a text never equals a number.
value_eq(a, b) ==
    CASE a.id = TAG_STRING /\ b.id = TAG_STRING -> a.value = b.value
      [] a.id = TAG_STRING \/ b.id = TAG_STRING -> FALSE
      [] a.id \in IntegerIds /\ b.id \in IntegerIds ->
            SignExtend(a.value) = SignExtend(b.value)
      [] a.id \in FloatIds /\ b.id \in FloatIds ->
            AsDouble(a.id, a.value) = AsDouble(b.id, b.value)
      [] a.id \in FloatIds /\ b.id \in IntegerIds ->
            AsDouble(a.id, a.value) = DoubleOfInt(IntOf(b.value))
      [] a.id \in IntegerIds /\ b.id \in FloatIds ->
            DoubleOfInt(IntOf(a.value)) = AsDouble(b.id, b.value)

PyBool(b) == IF b THEN "True" ELSE "False"

\* The names of a compound's children in order: keys().
keys(c) == [i \in 1..Len(c.value) |-> c.value[i].name]

\* key in compound.
contains(c, key) == \E i \in 1..Len(c.value) : c.value[i].name = key

\* TAG_Compound.__getitem__ for a key the compound holds: the first child
\* of that name.
getitem(c, key) ==
    c.value[CHOOSE i \in 1..Len(c.value) :
                /\ c.value[i].name = key
                /\ \A j \in 1..(i - 1) : c.value[j].name # key]

\* TAG_Compound.get_all.
get_all(c, key) == SelectSeq(c.value, LAMBDA v : v.name = key)

RECURSIVE ne(_, _)

\* The scan shared by TAG_Compound.eq and TAG_Compound.ne: TRUE when no
\* key of self makes the loop return, that is when other holds the key
\* (no KeyError) and ne of the two children is "False" (neither "True" nor
\* an exception, which the bare except catches).
compound_scan_clean(self, other) ==
    \A i \in 1..Len(self.value) :
        /\ contains(other, self.value[i].name)
        /\ ne(getitem(self, self.value[i].name),
              getitem(other, self.value[i].name)) = "False"

\* The scan shared by TAG_List.eq and TAG_List.ne: the outcome of ne at the
\* first place where it is not "False", or "False" when there is none.
list_scan(self, other) ==
    LET hits == {i \in 1..Len(self.value) :
                    ne(self.value[i], other.value[i]) # "False"}
    IN  IF hits = {} THEN "False"
        ELSE ne(self.value[CHOOSE i \in hits : \A j \in hits : i <= j],
                other.value[CHOOSE i \in hits : \A j \in hits : i <= j])

\* ne of every class.  The array classes call len(self), which TAG_Value
\* does not define: TypeError.
ne(self, other) ==
    CASE self.id = TAG_COMPOUND ->
            IF other.id # TAG_COMPOUND THEN "True"
            ELSE IF Len(self.value) # Len(other.value) THEN "True"
            ELSE PyBool(~compound_scan_clean(self, other))
      [] self.id = TAG_LIST ->
            IF other.id # TAG_LIST THEN "True"
            ELSE IF Len(self.value) # Len(other.value) THEN "True"
            ELSE IF list_scan(self, other) = "raise" THEN "raise"
            ELSE PyBool(list_scan(self, other) = "True")
      [] self.id \in ArrayIds ->
            IF other.id \notin ArrayIds THEN "True" ELSE "raise"
      [] OTHER ->
            IF other.id \in {TAG_COMPOUND, TAG_LIST} \cup ArrayIds THEN "True"
            ELSE PyBool(~value_eq(self, other))

\* eq of every class.
eq(self, other) ==
    CASE self.id = TAG_COMPOUND ->
            IF other.id # TAG_COMPOUND THEN "False"
            ELSE IF Len(self.value) # Len(other.value) THEN "False"
            ELSE PyBool(compound_scan_clean(self, other))
      [] self.id = TAG_LIST ->
            IF other.id # TAG_LIST THEN "False"
            ELSE IF Len(self.value) # Len(other.value) THEN "False"
            ELSE IF list_scan(self, other) = "raise" THEN "raise"
            ELSE PyBool(list_scan(self, other) = "False")
      [] self.id \in ArrayIds ->
            IF other.id \notin ArrayIds THEN "False" ELSE "raise"
      [] OTHER ->
            IF other.id \in {TAG_COMPOUND, TAG_LIST} \cup ArrayIds THEN "False"
            ELSE PyBool(value_eq(self, other))

\* ------------------------------------------------------------------------
\* Texts and numbers of Python
\* ------------------------------------------------------------------------

\* The name of a tag that was never given one: the class attribute
\* _name = None.  (No character has the code -1.)
None == <<0 - 1>>

\* unicode(x) in the name setter: None becomes the text None, a text stays.
unicode(x) == IF x = None THEN <<78, 111, 110, 101>> ELSE x

RECURSIVE DecDigits(_)
\* The decimal digits of n >= 0.
DecDigits(n) ==
    IF n < 10 THEN <<48 + n>> ELSE DecDigits(n \div 10) \o <<48 + (n % 10)>>

\* unicode(n) for an integer n.
unicode_int(n) == IF n < 0 THEN <<45>> \o DecDigits(0 - n) ELSE DecDigits(n)

\* unicode.lower on ASCII.
lower(t) == [i \in 1..Len(t) |-> IF t[i] \in 65..90 THEN t[i] + 32 ELSE t[i]]

IsSpace(c) == c \in {9, 10, 11, 12, 13, 32}

IsDigit(c) == c \in 48..57

RECURSIVE LStrip(_)
LStrip(t) == IF t # <<>> /\ IsSpace(Head(t)) THEN LStrip(Tail(t)) ELSE t

\* unicode.strip.
Strip(t) == Rev(LStrip(Rev(LStrip(t))))

RECURSIVE DecValue(_)
\* The number a run of decimal digits stands for.
DecValue(t) ==
    IF t = <<>> THEN 0
    ELSE DecValue(SubSeq(t, 1, Len(t) - 1)) * 10 + (t[Len(t)] - 48)

\* The digits of a numeral without its sign.
Unsigned(s) == IF s # <<>> /\ s[1] \in {43, 45} THEN Tail(s) ELSE s

\* int and long of a text without blanks around it: an optional sign and
\* decimal digits, ValueError (ok is FALSE) for anything else.
int_of_stripped(s) ==
    IF Unsigned(s) = <<>> \/ \E i \in 1..Len(Unsigned(s)) : ~IsDigit(Unsigned(s)[i])
    THEN [ok |-> FALSE, n |-> 0]
    ELSE [ok |-> TRUE,
          n |-> IF s[1] = 45 THEN 0 - DecValue(Unsigned(s))
                ELSE DecValue(Unsigned(s))]

\* int(text) and long(text): blanks around the numeral are allowed.
int_of_text(t) == int_of_stripped(Strip(t))

\* The digits of d complemented.
Complement(d) == [i \in 1..Len(d) |-> 255 - d[i]]

\* Digits widened with zeros, or cut, to w digits.
Widen(d, w) ==
    IF w >= Len(d) THEN [i \in 1..(w - Len(d)) |-> 0] \o d
    ELSE SubSeq(d, Len(d) - w + 1, Len(d))

\* The two's complement digits of the integer n in the width of a kind.  A
\* Python tag keeps any integer and fails when it is packed; the model
\* holds the integers that fit.
IntDigits(id, n) ==
    CASE FmtSize(id) = 1 /\ n \in -128..127 -> 
            IF n >= 0 THEN <<n>> ELSE <<n + 256>>
      [] FmtSize(id) = 2 /\ n \in -32768..32767 ->
            IF n >= 0 THEN DigitsOf(n, 2) ELSE DigitsOf(n + 65536, 2)
      [] FmtSize(id) >= 4 ->
            IF n >= 0 THEN Widen(DigitsOf(n, 4), FmtSize(id))
            ELSE Complement(Widen(DigitsOf(0 - n - 1, 4), FmtSize(id)))

RECURSIVE Replace(_, _, _)
\* unicode.replace(old, new) for a non-empty old.
Replace(t, old, new) ==
    IF Len(t) < Len(old) THEN t
    ELSE IF SubSeq(t, 1, Len(old)) = old
    THEN new \o Replace(SubSeq(t, Len(old) + 1, Len(t)), old, new)
    ELSE <<Head(t)>> \o Replace(Tail(t), old, new)

\* ------------------------------------------------------------------------
\* TAG_Compound on tags as values (no tag is held in two places)
\* ------------------------------------------------------------------------

\* TAG_Compound.check_value: FALSE when ValueError is raised for a tag
\* without a name.
check_value(val) == val.name # None /\ val.name # <<>>

\* TAG_Compound.__setitem__ for a tag and a text key: the tag is named,
\* checked, the children of that name are dropped and the tag is appended.
compound_setitem(self, key, item) ==
    IF ~check_value([item EXCEPT !.name = unicode(key)])
    THEN Outcome(self, "ValueError")
    ELSE Outcome([self EXCEPT
                     !.value = Append(SelectSeq(@, LAMBDA x : x.name # key),
                                      [item EXCEPT !.name = unicode(key)])],
                 "none")

\* TAG_Compound.add.
compound_add(self, value) ==
    IF value.name = None THEN Outcome(self, "ValueError")
    ELSE compound_setitem(self, value.name, value)

\* ------------------------------------------------------------------------
\* The text form: json() and json_to_tag
\* ------------------------------------------------------------------------

\* The suffix json() puts behind an integer.
JsonSuffix(id) ==
    CASE id = TAG_BYTE -> <<98>>
      [] id = TAG_SHORT -> <<115>>
      [] id = TAG_INT -> <<>>
      [] id = TAG_LONG -> <<108>>

\* A text without one trailing comma.
DropComma(t) ==
    IF t # <<>> /\ t[Len(t)] = 44 THEN SubSeq(t, 1, Len(t) - 1) ELSE t

\* The three replacements of TAG_String.json.
JsonEscape(t) ==
    Replace(Replace(Replace(t, <<92>>, <<92, 92>>), <<10>>, <<92, 110, 34>>),
            <<34>>, <<92, 34>>)

RECURSIVE json(_)
\* json() of a tag that has a name (every tag json is called on here has
\* one); unicode(float) is not modelled, so json of TAG_Float and
\* TAG_Double is not defined.
json(tag) ==
    LET prefix == IF Len(tag.name) # 0 THEN tag.name \o <<58>> ELSE <<>> IN
    CASE tag.name # None /\ tag.id \in IntegerIds ->
            prefix \o unicode_int(IntOf(tag.value)) \o JsonSuffix(tag.id)
      [] tag.name # None /\ tag.id = TAG_STRING ->
            prefix \o <<34>> \o JsonEscape(tag.value) \o <<34>>
      [] tag.name # None /\ tag.id = TAG_COMPOUND ->
            DropComma(prefix \o <<123>>
                \o Concat([i \in 1..Len(tag.value) |->
                      json(getitem(tag, tag.value[i].name)) \o <<44>>]))
                \o <<125>>
      [] tag.name # None /\ tag.id = TAG_LIST ->
            DropComma(prefix \o <<91>>
                \o Concat([i \in 1..Len(tag.value) |->
                      json(tag.value[i]) \o <<44>>]))
                \o <<93>>
      [] tag.name # None /\ tag.id = TAG_BYTE_ARRAY ->
            DropComma(prefix \o <<91, 66, 59>>
                \o Concat([i \in 1..Len(tag.value) |->
                      DecDigits(tag.value[i][1]) \o <<98, 44>>]))
                \o <<93>>
      [] tag.name # None /\ tag.id = TAG_INT_ARRAY /\
         (\A i \in 1..Len(tag.value) : tag.value[i][1] < 128) ->
            DropComma(prefix \o <<91, 73, 59>>
                \o Concat([i \in 1..Len(tag.value) |->
                      DecDigits(I32(tag.value[i])) \o <<44>>]))
                \o <<93>>
      [] tag.name # None /\ tag.id = TAG_LONG_ARRAY /\
         (\A i \in 1..Len(tag.value) :
             tag.value[i][5] < 128 /\ SubSeq(tag.value[i], 1, 4) = <<0, 0, 0, 0>>) ->
            DropComma(prefix \o <<91, 76, 59>>
                \o Concat([i \in 1..Len(tag.value) |->
                      DecDigits(I32(SubSeq(tag.value[i], 5, 8))) \o <<108, 44>>]))
                \o <<93>>

\* The binary32 digits of an integer n with |n| < 2^20.
FloatOfInt(n) ==
    IF n = 0 THEN <<0, 0, 0, 0>>
    ELSE LET a == IF n < 0 THEN 0 - n ELSE n
             p == Log2(a)
             e32 == 127 + p
             m == (a - 2 ^ p) * 2 ^ (23 - p)
         IN  <<(IF n < 0 THEN 128 ELSE 0) + e32 \div 2,
               (e32 % 2) * 128 + m \div 65536,
               (m \div 256) % 256,
               m % 256>>

\* float of a text, given int of it (r) and the text stripped and in
\* lower case (s), where the model can tell: an integer numeral gives its
\* value, a text with a character no float numeral has gives ValueError.
\* (Characters of numerals: digits, sign, point, exponent, and the letters
\* of inf, infinity and nan.)
float_of_stripped(r, s) ==
    CASE r.ok /\ r.n \in -1048575..1048575 -> [ok |-> TRUE, n |-> r.n]
      [] s = <<>> \/ \E i \in 1..Len(s) :
            s[i] \notin (48..57) \cup
                {43, 45, 46, 101, 105, 110, 102, 116, 121, 97} ->
            [ok |-> FALSE, n |-> 0]

\* float(text).
float_of_text(t) == float_of_stripped(int_of_text(t), lower(Strip(t)))

\* json[-1].lower() of _jsonParser_jsonToTag.
TailLower(json0) == lower(<<json0[Len(json0)]>>)

\* Whether the last character is one of the suffixes b s l f d.
HasSuffix(json0) ==
    TailLower(json0) \in {<<98>>, <<115>>, <<108>>, <<102>>, <<100>>}

\* The class the branches of _jsonParser_jsonToTag try for a text: by its
\* suffix, 0 for a quoted text, else TAG_Double with a point in it and
\* TAG_Int without.
jsonToTag_class(json0) ==
    CASE TailLower(json0) = <<98>> -> TAG_BYTE
      [] TailLower(json0) = <<115>> -> TAG_SHORT
      [] TailLower(json0) = <<108>> -> TAG_LONG
      [] TailLower(json0) = <<102>> -> TAG_FLOAT
      [] TailLower(json0) = <<100>> -> TAG_DOUBLE
      [] json0[Len(json0)] = 34 -> 0
      [] OTHER -> IF \E i \in 1..Len(json0) : json0[i] = 46
                  THEN TAG_DOUBLE ELSE TAG_INT

\* The text handed to the class: sansTail behind a suffix, else json.
jsonToTag_numeral(json0) ==
    IF HasSuffix(json0) THEN SubSeq(json0, 1, Len(json0) - 1) ELSE json0

\* sansQuotes.
jsonToTag_sansQuotes(json0) ==
    IF json0[1] = 34 /\ json0[Len(json0)] = 34
    THEN PySlice(json0, 1, Len(json0) - 1) ELSE json0

\* The tag a branch returns, given the class it tries, int and float of
\* the numeral, and sansQuotes: a number that does not parse makes a
\* TAG_String of the text.  A tag made here has the name its constructor
\* gives: "" for the numbers, None for TAG_String.
jsonToTag_make(id, asInt, asFloat, sansQuotes) ==
    IF id = 0
    THEN [id |-> TAG_STRING, name |-> None,
          value |-> Replace(Replace(Replace(sansQuotes, <<92, 34>>, <<34>>),
                                    <<92, 110>>, <<10, 34>>),
                            <<92, 92>>, <<92>>)]
    ELSE IF id \in IntegerIds /\ asInt.ok
    THEN [id |-> id, name |-> <<>>, value |-> IntDigits(id, asInt.n)]
    ELSE IF id \in FloatIds /\ asFloat.ok
    THEN [id |-> id, name |-> <<>>,
          value |-> IF id = TAG_DOUBLE THEN DoubleOfInt(asFloat.n)
                    ELSE FloatOfInt(asFloat.n)]
    ELSE [id |-> TAG_STRING, name |-> None, value |-> sansQuotes]

\* _jsonParser_jsonToTag after true and false are made 1b and 0b.
jsonToTag_typed(json0) ==
    jsonToTag_make(jsonToTag_class(json0),
                   int_of_text(jsonToTag_numeral(json0)),
                   float_of_text(jsonToTag_numeral(json0)),
                   jsonToTag_sansQuotes(json0))

\* _jsonParser_jsonToTag: the kind is read off the last character.
_jsonParser_jsonToTag(text) ==
    jsonToTag_typed(IF lower(text) = <<116, 114, 117, 101>> THEN <<49, 98>>
                    ELSE IF lower(text) = <<102, 97, 108, 115, 101>>
                    THEN <<48, 98>>
                    ELSE text)

\* The values of the parser's state["native"]: None, a text, or the empty
\* dict or list a bracket stands for.
NoNative == [k |-> "None", t |-> <<>>]

TextNative(t) == [k |-> "text", t |-> t]

ContainerNative == [k |-> "container", t |-> <<>>]

\* state["tag"] = None.
NoTag == [id |-> 0, name |-> <<>>, value |-> <<>>]

\* The state json_to_tag starts with.  stackTag holds the open containers,
\* result at the bottom; an open container is the last child of the one
\* below it, and is written back there when it is popped.  result is kept
\* apart once it is popped.  startQuote is -1 for None.
ParserStart ==
    [name |-> <<>>, native |-> NoNative, tag |-> NoTag,
     stackTag |-> <<[id |-> TAG_COMPOUND, name |-> <<>>, value |-> <<>>]>>,
     result |-> NoTag, startQuote |-> 0 - 1, backslashFound |-> FALSE,
     listTypeCharsLeft |-> 0, exc |-> "none"]

\* numpy.insert of a parsed tag's value at the end of an array tag's
\* value, and the value setter: defined for the integers the element type
\* holds without conversion.
array_insert(self, tag, P) ==
    CASE tag.id \in IntegerIds /\ IntOf(tag.value) >= 0
         /\ (self.id = TAG_BYTE_ARRAY => IntOf(tag.value) < 256) ->
            Outcome([self EXCEPT
                        !.value = Append(@, Widen(DigitsOf(IntOf(tag.value), 4),
                                                  ItemSize(self.id))),
                        !.dtype = ClassDtype(self.id, P)],
                    "none")

\* A stack with its top container replaced.
WithTop(stack, top) == SubSeq(stack, 1, Len(stack) - 1) \o <<top>>

\* isContainer of _jsonParser_storeValue.
IsContainer(tag) == tag.id \in {TAG_COMPOUND, TAG_LIST} \cup ArrayIds

\* The end of _jsonParser_storeValue, given what storing in the parent
\* gave: a container goes on the stack, and the state is reset.
storeValue_done(st, stored) ==
    IF stored.exc # "none" THEN [st EXCEPT !.exc = stored.exc]
    ELSE [st EXCEPT
             !.stackTag =
                 WithTop(@, stored.self) \o
                 (IF IsContainer(st.tag)
                  THEN <<stored.self.value[Len(stored.self.value)]>>
                  ELSE <<>>),
             !.name = <<>>, !.native = NoNative, !.tag = NoTag]

\* The middle of _jsonParser_storeValue: the named tag is stored in the
\* container on top of the stack, by the function of the container's
\* type.
storeValue_in(st, parent, named, P) ==
    storeValue_done(st,
        CASE parent.id = TAG_COMPOUND -> compound_add(parent, named)
          [] parent.id = TAG_LIST -> list_append(parent, named)
          [] parent.id \in ArrayIds /\ ~IsContainer(st.tag) ->
                array_insert(parent, named, P))

\* _jsonParser_storeValue: nothing without a value; else the tag is made
\* (unless it is a container already) and named, and stored.
_jsonParser_storeValue(st, P) ==
    IF st.native.k = "None" THEN st
    ELSE IF st.stackTag = <<>> THEN [st EXCEPT !.exc = "IndexError"]
    ELSE storeValue_in(st, st.stackTag[Len(st.stackTag)],
                       [(IF IsContainer(st.tag) THEN st.tag
                         ELSE _jsonParser_jsonToTag(st.native.t))
                        EXCEPT !.name = unicode(st.name)], P)

\* The pop of _jsonParser_exitNestLevel: the popped container is complete
\* and takes its place in the one below; result is kept when it is popped.
exitNestLevel_pop(s1) ==
    IF s1.exc # "none" THEN s1
    ELSE IF Len(s1.stackTag) = 0 THEN [s1 EXCEPT !.exc = "IndexError"]
    ELSE IF Len(s1.stackTag) = 1
    THEN [s1 EXCEPT !.result = s1.stackTag[1], !.stackTag = <<>>]
    ELSE [s1 EXCEPT
             !.stackTag =
                 SubSeq(@, 1, Len(@) - 2) \o
                 <<[@[Len(@) - 1] EXCEPT
                       !.value[Len(s1.stackTag[Len(s1.stackTag) - 1].value)] =
                           s1.stackTag[Len(s1.stackTag)]]>>]

\* _jsonParser_exitNestLevel: store, then pop.
_jsonParser_exitNestLevel(st, P) ==
    exitNestLevel_pop(_jsonParser_storeValue(st, P))

\* The tag id the two characters behind "[" stand for: B; I; L; or 0.
ArrayTypeId(typeId) ==
    CASE typeId = <<66, 59>> -> TAG_BYTE_ARRAY
      [] typeId = <<73, 59>> -> TAG_INT_ARRAY
      [] typeId = <<76, 59>> -> TAG_LONG_ARRAY
      [] OTHER -> 0

\* The tag "[" makes: TAG_List(), or an empty array of the type named.
BracketTag(arrayId, P) ==
    IF arrayId = 0
    THEN [id |-> TAG_LIST, name |-> <<>>, list_type |-> TAG_BYTE,
          value |-> <<>>]
    ELSE [id |-> arrayId, name |-> <<>>, value |-> <<>>,
          dtype |-> ClassDtype(arrayId, P)]

\* The call a branch of json_to_tag's loop ends with, for the character c
\* at index i: none for a skipped or quoted character.
json_to_tag_call(i, c, st) ==
    IF st.listTypeCharsLeft > 0 \/ st.backslashFound \/ c = 92
       \/ c = 34 \/ st.startQuote # 0 - 1
    THEN "none"
    ELSE IF (c = 123 /\ i # 0) \/ c = 91 \/ c = 44 THEN "storeValue"
    ELSE IF c = 93 \/ c = 125 THEN "exitNestLevel"
    ELSE "none"

\* The branches of the loop without the one that passes over the
\* characters inside quotes.
json_to_tag_before_unquoted(text, i, c, st, P) ==
    IF st.listTypeCharsLeft > 0
    THEN [st EXCEPT !.listTypeCharsLeft = @ - 1]
    ELSE IF st.backslashFound THEN [st EXCEPT !.backslashFound = FALSE]
    ELSE IF c = 92 THEN [st EXCEPT !.backslashFound = TRUE]
    ELSE IF c = 34
    THEN IF st.startQuote # 0 - 1
         THEN [st EXCEPT
                  !.native = TextNative(PySlice(text, st.startQuote, i + 1)),
                  !.startQuote = 0 - 1]
         ELSE [st EXCEPT !.startQuote = i]
    ELSE IF c = 123
    THEN IF i = 0 THEN st
         ELSE [st EXCEPT !.native = ContainerNative,
                         !.tag = [id |-> TAG_COMPOUND, name |-> <<>>,
                                  value |-> <<>>]]
    ELSE IF c = 91
    THEN [st EXCEPT
             !.native = ContainerNative,
             !.tag = BracketTag(ArrayTypeId(PySlice(text, i + 1, i + 3)), P),
             !.listTypeCharsLeft =
                 IF ArrayTypeId(PySlice(text, i + 1, i + 3)) = 0 THEN 0 ELSE 2]
    ELSE IF c = 93 \/ c = 125 \/ c = 44 THEN st
    ELSE IF c = 58
    THEN IF st.name = <<>>
         THEN [st EXCEPT !.name = IF st.native.k = "None" THEN None
                                  ELSE st.native.t,
                         !.native = NoNative]
         ELSE IF st.name = None \/ st.native.k = "None"
         THEN [st EXCEPT !.exc = "TypeError"]
         ELSE [st EXCEPT !.name = @ \o <<58>> \o st.native.t,
                         !.native = NoNative]
    ELSE [st EXCEPT !.native = TextNative(@.t \o <<c>>)]

\* What a branch of the loop does to the state before that call.
json_to_tag_before(text, i, c, st, P) ==
    IF st.listTypeCharsLeft > 0
    THEN [st EXCEPT !.listTypeCharsLeft = @ - 1]
    ELSE IF st.backslashFound THEN [st EXCEPT !.backslashFound = FALSE]
    ELSE IF c = 92 THEN [st EXCEPT !.backslashFound = TRUE]
    ELSE IF c = 34
    THEN IF st.startQuote # 0 - 1
         THEN [st EXCEPT
                  !.native = TextNative(PySlice(text, st.startQuote, i + 1)),
                  !.startQuote = 0 - 1]
         ELSE [st EXCEPT !.startQuote = i]
    ELSE IF st.startQuote # 0 - 1 THEN st
    ELSE IF c = 123
    THEN IF i = 0 THEN st
         ELSE [st EXCEPT !.native = ContainerNative,
                         !.tag = [id |-> TAG_COMPOUND, name |-> <<>>,
                                  value |-> <<>>]]
    ELSE IF c = 91
    THEN [st EXCEPT
             !.native = ContainerNative,
             !.tag = BracketTag(ArrayTypeId(PySlice(text, i + 1, i + 3)), P),
             !.listTypeCharsLeft =
                 IF ArrayTypeId(PySlice(text, i + 1, i + 3)) = 0 THEN 0 ELSE 2]
    ELSE IF c = 93 \/ c = 125 \/ c = 44 THEN st
    ELSE IF c = 58
    THEN IF st.name = <<>>
         THEN [st EXCEPT !.name = IF st.native.k = "None" THEN None
                                  ELSE st.native.t,
                         !.native = NoNative]
         ELSE IF st.name = None \/ st.native.k = "None"
         THEN [st EXCEPT !.exc = "TypeError"]
         ELSE [st EXCEPT !.name = @ \o <<58>> \o st.native.t,
                         !.native = NoNative]
    ELSE [st EXCEPT !.native = TextNative(@.t \o <<c>>)]

\* A branch's call on the state the branch left.
json_to_tag_apply(call, before, P) ==
    IF call = "storeValue" THEN _jsonParser_storeValue(before, P)
    ELSE IF call = "exitNestLevel" THEN _jsonParser_exitNestLevel(before, P)
    ELSE before

\* The body of json_to_tag's loop for the character c at index i.
json_to_tag_step(text, i, c, st, P) ==
    json_to_tag_apply(json_to_tag_call(i, c, st),
                      json_to_tag_before(text, i, c, st, P), P)

RECURSIVE json_to_tag_loop(_, _, _, _)
\* json_to_tag's loop from index i on; an exception ends it.
json_to_tag_loop(text, i, st, P) ==
    IF st.exc # "none" \/ i >= Len(text) THEN st
    ELSE json_to_tag_loop(text, i + 1,
                          json_to_tag_step(text, i, text[i + 1], st, P), P)

RECURSIVE CollapseStack(_)
\* The bottom container of a stack, with every container above it in its
\* place below.
CollapseStack(stack) ==
    IF Len(stack) = 1 THEN stack[1]
    ELSE CollapseStack(
             SubSeq(stack, 1, Len(stack) - 2) \o
             <<[stack[Len(stack) - 1] EXCEPT
                   !.value[Len(stack[Len(stack) - 1].value)] =
                       stack[Len(stack)]]>>)

\* The end of json_to_tag: a value still held is stored, unless the loop
\* ended with an exception.
json_to_tag_last(st, P) ==
    IF st.exc = "none" THEN _jsonParser_storeValue(st, P) ELSE st

\* What json_to_tag gives for the state it ends in: the exception, or
\* result, with the containers still open in their places.
json_to_tag_result(fin) ==
    IF fin.exc # "none" THEN Outcome(NoTag, fin.exc)
    ELSE Outcome(IF fin.stackTag = <<>> THEN fin.result
                 ELSE CollapseStack(fin.stackTag), "none")

\* json_to_tag.
json_to_tag(text, P) ==
    json_to_tag_result(
        json_to_tag_last(json_to_tag_loop(text, 0, ParserStart, P), P))

\* ------------------------------------------------------------------------
\* TAG_Compound on tag objects (a tag may be held in several places)
\* ------------------------------------------------------------------------
\* A heap maps an object to the tag it is at the moment; the _value of the
\* compound is the sequence of its children, as objects.  A key is a text
\* (str or unicode) or another Python value, here an integer: its text is
\* unicode(key), and only a text key compares equal to a name.

StrKey(t) == [kind |-> "str", text |-> t]

IntKey(n) == [kind |-> "int", text |-> unicode_int(n)]

\* tag.name == key.
NameIsKey(name, key) == key.kind = "str" /\ name = key.text

\* What a call leaves: the heap, the children, the exception ("none" when
\* the call returns).
HeapOutcome(H, C, exc) == [heap |-> H, children |-> C, exc |-> exc]

\* TAG_Compound.__setitem__ for a tag object: item.name = key, then
\* check_value, then the children x with x.name != key are kept and the
\* item is appended.
c_setitem(H, C, key, o) ==
    LET H1 == [H EXCEPT ![o].name = key.text] IN
    IF ~check_value(H1[o]) THEN HeapOutcome(H1, C, "ValueError")
    ELSE HeapOutcome(H1,
                     Append(SelectSeq(C, LAMBDA x : ~NameIsKey(H1[x].name, key)), o),
                     "none")

\* The place of the first child whose name is the key, or 0: the loop of
\* __getitem__, and key in self.
c_first(H, C, key) ==
    IF \E i \in 1..Len(C) : NameIsKey(H[C[i]].name, key)
    THEN CHOOSE i \in 1..Len(C) :
            /\ NameIsKey(H[C[i]].name, key)
            /\ \A j \in 1..(i - 1) : ~NameIsKey(H[C[j]].name, key)
    ELSE 0

\* TAG_Compound.add.
c_add(H, C, o) ==
    IF H[o].name = None THEN HeapOutcome(H, C, "ValueError")
    ELSE c_setitem(H, C, StrKey(H[o].name), o)

\* TAG_Compound.__delitem__: self[key], then list.index, which finds the
\* first place holding that object (the tags here compare by identity),
\* then the deletion there.
c_delitem(H, C, key) ==
    IF c_first(H, C, key) = 0 THEN HeapOutcome(H, C, "KeyError")
    ELSE LET p == CHOOSE p \in 1..Len(C) :
                    /\ C[p] = C[c_first(H, C, key)]
                    /\ \A q \in 1..(p - 1) : C[q] # C[c_first(H, C, key)]
         IN  HeapOutcome(H, SubSeq(C, 1, p - 1) \o SubSeq(C, p + 1, Len(C)),
                         "none")

\* TAG_Value.update: self.value = newTag.value, through the data_type of
\* self's class (int, long, or the unicode check of TAG_String).
value_update(self, newTag) ==
    CASE self.id \in IntegerIds /\ newTag.id \in IntegerIds ->
            Outcome([self EXCEPT
                        !.value = IntDigits(self.id, IntOf(newTag.value))],
                    "none")
      [] self.id \in IntegerIds /\ newTag.id = TAG_STRING ->
            IF int_of_text(newTag.value).ok
            THEN Outcome([self EXCEPT
                             !.value = IntDigits(self.id,
                                                 int_of_text(newTag.value).n)],
                         "none")
            ELSE Outcome(self, "ValueError")
      [] self.id \in IntegerIds /\ newTag.id \in {TAG_COMPOUND, TAG_LIST} ->
            Outcome(self, "TypeError")
      [] self.id = TAG_STRING /\ newTag.id = TAG_STRING ->
            Outcome([self EXCEPT !.value = newTag.value], "none")
      [] self.id = TAG_STRING /\ newTag.id \in IntegerIds ->
            Outcome(self, "AttributeError")

\* ------------------------------------------------------------------------
\* The trees the model constructs
\* ------------------------------------------------------------------------

\* TAG_Byte(v, name) and the other constructors; a value is given by its
\* digits.
Scalar(id, name, digits) == [id |-> id, name |-> name, value |-> digits]

String(name, text) == [id |-> TAG_STRING, name |-> name, value |-> text]

\* TAG_Compound(value, name): data_type keeps the list as it is given (each
\* item is checked for a name, not for a name of its own).
Compound(name, children) ==
    [id |-> TAG_COMPOUND, name |-> name, value |-> children]

\* TAG_List(value, name) for elements of one kind.
List(name, elements) == TAG_List_init(elements, name, TAG_BYTE).self

\* TAG_Byte_Array(value), TAG_Int_Array(value), TAG_Long_Array(value):
\* data_type builds array(value, self.dtype), with the dtype the class has
\* at that moment.
Array(id, name, elements, P) ==
    [id |-> id, name |-> name, value |-> elements, dtype |-> ClassDtype(id, P)]

\* The children a constructed root is made of, each under the name it is
\* given: one tag of every kind, at the root or nested.
Payloads(n, P) ==
    << Scalar(TAG_BYTE, n, <<42>>),
       Scalar(TAG_SHORT, n, <<1, 2>>),
       String(n, <<104, 105>>),
       List(n, <<Scalar(TAG_BYTE, <<>>, <<1>>), Scalar(TAG_BYTE, <<>>, <<2>>)>>),
       Compound(n, <<>>),
       List(n, <<Compound(<<>>, <<Scalar(TAG_BYTE, <<120>>, <<1>>)>>),
                 Compound(<<>>, <<>>)>>),
       Array(TAG_INT_ARRAY, n, <<<<0, 0, 0, 1>>, <<0, 0, 0, 2>>>>, P),
       Compound(n, <<Scalar(TAG_BYTE, <<120>>, <<1>>),
                     Scalar(TAG_BYTE, <<120>>, <<2>>)>>),
       Compound(n, <<Scalar(TAG_INT, <<105>>, <<0, 0, 1, 2>>),
                     Scalar(TAG_LONG, <<108>>, <<0, 0, 0, 0, 0, 0, 1, 2>>),
                     Scalar(TAG_FLOAT, <<102>>, <<63, 192, 0, 0>>),
                     Scalar(TAG_DOUBLE, <<100>>, <<63, 248, 0, 0, 0, 0, 0, 0>>),
                     Array(TAG_LONG_ARRAY, <<76>>,
                           <<<<0, 0, 0, 0, 0, 0, 0, 1>>>>, P),
                     List(<<115>>,
                          <<Array(TAG_BYTE_ARRAY, <<>>, <<<<1>>, <<2>>>>, P)>>)>>) >>

\* The name of the i-th child of a constructed root: "a", "b", ...
ChildName(i) == <<96 + i>>

\* The names a constructed root gets: "" and "R".
RootNames == {<<>>, <<82>>}

\* The bytes raw buffers are made of: zero, a tag id other than 10, and 10.
RawBytes == {0, 1, 10}

\* The raw buffers: every sequence of RawBytes up to MaxRaw long.
RawBuffers == UNION {[1..n -> RawBytes] : n \in 0..MaxRaw}

\* ------------------------------------------------------------------------
\* State
\* ------------------------------------------------------------------------

VARIABLES
    profile,    \* the endian profile in effect: the globals and class attributes
    depth,      \* the number of littleEndianNBT generators suspended at yield
    tree,       \* the constructed root TAG_Compound, or NoTree
    buf,        \* the buffer at hand: how it came about, its bytes
    res,        \* the outcome of the last load of buf
    lst,        \* the TAG_List L at hand, or NoList
    lstOp,      \* the last operation on L
    heap,       \* the tag objects: what each is at the moment
    children,   \* the _value of the TAG_Compound c: its children objects
    cOp,        \* the last operation on c
    pair,       \* two tags a and b, and what the comparisons of them gave
    store,      \* tag objects that hold each other, and the updates of them
    parse,      \* a text, and json_to_tag at work on it
    thr,        \* two threads: the scopes each is in, what its calls gave
    files       \* the file objects load and save made

codecVars == <<profile, depth, tree, buf, res>>

listVars == <<lst, lstOp>>

compoundVars == <<heap, children, cOp>>

\* What the constructions, saves, loads and the operations on L and c leave
\* alone.
restVars == <<pair, store, parse, thr, files>>

vars == <<profile, depth, tree, buf, res, lst, lstOp, heap, children, cOp,
          pair, store, parse, thr, files>>

NoTree == [id |-> 0, name |-> <<>>, value |-> <<>>]

\* A buffer records whether it was written inside a scope (depth > 0) and
\* whether the little-endian settings were in effect; a result records the
\* same of the load.
NoBuf == [kind |-> "none", data |-> <<>>, inScope |-> FALSE, little |-> FALSE]

NoRes == [kind |-> "none", inScope |-> FALSE, little |-> FALSE,
          out |-> Raised("none")]

NoList == [id |-> 0, name |-> <<>>, list_type |-> 0, value |-> <<>>]

\* assignFailed: a whole-value assignment to L has raised.
NoListOp == [op |-> "none", exc |-> "none", assignFailed |-> FALSE]

\* The tags the caller has constructed: TAG_Byte(1), and TAG_String("1"),
\* which has no name.
Pool ==
    << Scalar(TAG_BYTE, <<>>, <<1>>),
       String(None, <<49>>) >>

PoolIds == 1..Len(Pool)

ObjIds == 1..MaxObjs

\* An object that is no tag yet.
Blank == [id |-> 0, name |-> None, value |-> <<>>]

\* cOp keeps the key, the item and the exception of a c[key] = item, and
\* the name of any other operation.
NoCompoundOp == [op |-> "none", key |-> StrKey(<<>>), obj |-> 0, exc |-> "none"]

\* No tags are at hand for a comparison.
NoPair == [kind |-> "none"]

\* No tag objects that hold each other are made.
NoStore == [kind |-> "none"]

\* No text is at hand for json_to_tag.
NoParse == [kind |-> "none"]

\* No thread has called anything.
NoThreads == [kind |-> "none"]

\* No file object is made.
NoFiles == [kind |-> "none"]

Init ==
    /\ profile = BigEndianProfile
    /\ depth = 0
    /\ tree = NoTree
    /\ buf = NoBuf
    /\ res = NoRes
    /\ lst = NoList
    /\ lstOp = NoListOp
    /\ heap = [o \in ObjIds |-> IF o \in PoolIds THEN Pool[o] ELSE Blank]
    /\ children = <<>>
    /\ cOp = NoCompoundOp
    /\ pair = NoPair
    /\ store = NoStore
    /\ parse = NoParse
    /\ thr = NoThreads
    /\ files = NoFiles

\* ------------------------------------------------------------------------
\* The littleEndianNBT scope (a generator under @contextmanager)
\* ------------------------------------------------------------------------

\* The assignments before the yield.
littleEndianNBT_before(P) == LittleEndianSettings

\* The assignments after the yield.
littleEndianNBT_after(P) == ResetSettings

\* with littleEndianNBT(): the generator runs to its yield.
Enter ==
    /\ depth < MaxDepth
    /\ profile' = littleEndianNBT_before(profile)
    /\ depth' = depth + 1
    /\ UNCHANGED <<tree, buf, res, listVars, compoundVars, restVars>>

\* The block ends normally: the generator of the innermost scope is resumed
\* and runs the assignments after its yield.
ExitNormal ==
    /\ depth > 0
    /\ profile' = littleEndianNBT_after(profile)
    /\ depth' = depth - 1
    /\ UNCHANGED <<tree, buf, res, listVars, compoundVars, restVars>>

\* The block ends with an exception: it is thrown into the generator at the
\* yield, which is inside no try statement, so the generator ends there
\* and the assignments after the yield are not run.
ExitRaise ==
    /\ depth > 0
    /\ depth' = depth - 1
    /\ UNCHANGED <<profile, tree, buf, res, listVars, compoundVars, restVars>>

\* ------------------------------------------------------------------------
\* Construct, save, load
\* ------------------------------------------------------------------------

\* A root is constructed from up to MaxChildren named children.
Construct ==
    /\ tree = NoTree
    /\ buf.kind = "none"
    /\ \E rn \in RootNames, n \in 0..MaxChildren :
         \E f \in [1..n -> 1..Len(Payloads(<<>>, profile))] :
            tree' = Compound(rn, [i \in 1..n |->
                                     Payloads(ChildName(i), profile)[f[i]]])
    /\ UNCHANGED <<profile, depth, buf, res, listVars, compoundVars, restVars>>

\* data = tree.save(compressed=False)
Save ==
    /\ tree # NoTree
    /\ buf' = [kind |-> "saved", data |-> save(tree, profile),
               inScope |-> depth > 0, little |-> IsLittleEndian(profile)]
    /\ res' = NoRes
    /\ UNCHANGED <<profile, depth, tree, listVars, compoundVars, restVars>>

\* The saved bytes reach the reader cut short: a strict prefix.
Truncate ==
    /\ buf.kind = "saved"
    /\ \E n \in 0..(Len(buf.data) - 1) :
          buf' = [buf EXCEPT !.kind = "truncated",
                             !.data = SubSeq(buf.data, 1, n)]
    /\ res' = NoRes
    /\ UNCHANGED <<profile, depth, tree, listVars, compoundVars, restVars>>

\* A buffer that no save produced is handed to the reader.
Provide ==
    /\ tree = NoTree
    /\ buf.kind = "none"
    /\ \E raw \in RawBuffers :
          buf' = [kind |-> "raw", data |-> raw, inScope |-> FALSE,
                  little |-> FALSE]
    /\ res' = NoRes
    /\ UNCHANGED <<profile, depth, tree, listVars, compoundVars, restVars>>

\* load(buf=data)
Load ==
    /\ buf.kind # "none"
    /\ res.kind = "none"
    /\ res' = [kind |-> "loaded", inScope |-> depth > 0,
               little |-> IsLittleEndian(profile),
               out |-> load(buf.data, profile)]
    /\ UNCHANGED <<profile, depth, tree, buf, listVars, compoundVars, restVars>>

Next ==
    \/ Enter
    \/ ExitNormal
    \/ ExitRaise
    \/ Construct
    \/ Save
    \/ Truncate
    \/ Provide
    \/ Load

Spec == Init /\ [][Next]_vars

\* ------------------------------------------------------------------------
\* Operations on a TAG_List
\* ------------------------------------------------------------------------

\* The tags put into lists: a named TAG_Byte, a TAG_Int, a TAG_String.
ElemPool ==
    { Scalar(TAG_BYTE, <<110>>, <<1>>),
      Scalar(TAG_INT, <<>>, <<0, 0, 0, 3>>),
      String(<<>>, <<104>>) }

\* The lists of tags given to the constructor, a slice assignment or a
\* value assignment.
ElemLists == UNION {[1..n -> ElemPool] : n \in 0..2}

\* The indexes used: the last place, the first two, and one past the
\* longest list.
ListIndexes == {0 - 1, 0, 1, MaxListLen}

\* Encoded TAG_List payloads: a kind byte, a count, some payload bytes.
ListWires ==
    { <<t>> \o DigitsOf(n, 4) \o body :
        t \in {0, TAG_BYTE, TAG_INT}, n \in 0..2,
        body \in {<<>>, <<1>>, <<1, 1>>, <<0, 0, 0, 3>>} }

\* What an operation leaves in L and lstOp.
ListDone(op, out) ==
    /\ Len(out.self.value) <= MaxListLen
    /\ lst' = out.self
    /\ lstOp' = [op |-> op, exc |-> out.exc,
                 assignFailed |-> lstOp.assignFailed \/
                                  (op = "setvalue" /\ out.exc # "none")]
    /\ UNCHANGED <<codecVars, compoundVars, restVars>>

\* L = TAG_List(value, list_type=...): L is bound when the constructor
\* returns.
ListConstruct ==
    \E val \in ElemLists, list_type \in {TAG_BYTE, TAG_COMPOUND} :
        LET out == TAG_List_init(val, <<>>, list_type) IN
        /\ lst' = IF out.exc = "none" THEN out.self ELSE lst
        /\ lstOp' = [op |-> "construct", exc |-> out.exc,
                     assignFailed |-> out.exc # "none" /\ lstOp.assignFailed]
        /\ UNCHANGED <<codecVars, compoundVars, restVars>>

\* L = TAG_List.load_from(ctx) on an encoded payload.
ListDecode ==
    \E wire \in ListWires :
        LET out == list_load_from(wire, 0, profile) IN
        /\ lst' = IF out.ok THEN out.tag ELSE lst
        /\ lstOp' = [op |-> "decode",
                     exc |-> IF out.ok THEN "none" ELSE out.exc,
                     assignFailed |-> ~out.ok /\ lstOp.assignFailed]
        /\ UNCHANGED <<codecVars, compoundVars, restVars>>

\* L.insert(index, tag)
ListInsert ==
    /\ lst # NoList
    /\ \E index \in ListIndexes, tag \in ElemPool :
          ListDone("insert", list_insert(lst, index, tag))

\* L.append(tag)
ListAppend ==
    /\ lst # NoList
    /\ \E tag \in ElemPool : ListDone("append", list_append(lst, tag))

\* L[index] = tag
ListSetItem ==
    /\ lst # NoList
    /\ \E index \in ListIndexes, tag \in ElemPool :
          ListDone("setitem", list_setitem(lst, index, tag))

\* L[lo:hi] = tags
ListSetSlice ==
    /\ lst # NoList
    /\ \E lo \in ListIndexes, hi \in ListIndexes, tags \in ElemLists :
          ListDone("setslice", list_setslice(lst, lo, hi, tags))

\* del L[index]
ListDelItem ==
    /\ lst # NoList
    /\ \E index \in ListIndexes : ListDone("delitem", list_delitem(lst, index))

\* L.value = tags
ListSetValue ==
    /\ lst # NoList
    /\ \E tags \in ElemLists : ListDone("setvalue", list_set_value(lst, tags))

NextList ==
    \/ ListConstruct
    \/ ListDecode
    \/ ListInsert
    \/ ListAppend
    \/ ListSetItem
    \/ ListSetSlice
    \/ ListDelItem
    \/ ListSetValue

SpecList == Init /\ [][NextList]_vars

\* ------------------------------------------------------------------------
\* Operations on a TAG_Compound c that starts empty
\* ------------------------------------------------------------------------

\* The keys used: "", "a", "b" and the integer 1.
Keys == {StrKey(<<>>), StrKey(<<97>>), StrKey(<<98>>), IntKey(1)}

\* The compounds given to update: their children are TAG_Byte and
\* TAG_String tags named "a" and "b"; one holds the name "a" twice.
Sources ==
    { Compound(<<>>, <<Scalar(TAG_BYTE, <<97>>, <<1>>)>>),
      Compound(<<>>, <<String(<<97>>, <<49>>),
                       Scalar(TAG_BYTE, <<98>>, <<1>>)>>),
      Compound(<<>>, <<Scalar(TAG_BYTE, <<97>>, <<1>>),
                       String(<<97>>, <<104, 105>>)>>),
      Compound(<<>>, <<String(<<98>>, <<104, 105>>)>>) }

\* The objects the caller can name: the ones it constructed and the
\* children of c.
Held == PoolIds \cup {children[i] : i \in 1..Len(children)}

\* An object that is free to become a new tag, or 0 when the model has
\* none left.
Alloc(C) ==
    LET free == {o \in ObjIds \ PoolIds : \A i \in 1..Len(C) : C[i] # o}
    IN  IF free = {} THEN 0 ELSE CHOOSE o \in free : \A q \in free : o <= q

\* update for a key c does not hold, given what json_to_tag made of the
\* source's json: the tag of that name in it (or all of it, when it has
\* the name) becomes a new object, and c[aKey] is set to it.
c_update_absent(S, aKey, parsed, f) ==
    IF parsed.exc # "none" THEN [S EXCEPT !.exc = parsed.exc]
    ELSE IF parsed.self.name # aKey /\ ~contains(parsed.self, aKey)
    THEN [S EXCEPT !.exc = "KeyError"]
    ELSE IF f = 0 THEN [S EXCEPT !.exc = "full"]
    ELSE c_setitem([S.heap EXCEPT ![f] =
                       IF parsed.self.name # aKey
                       THEN getitem(parsed.self, aKey) ELSE parsed.self],
                   S.children, StrKey(aKey), f)

\* update for a key c holds at place at: the child there takes the value
\* of the source.
c_update_present(S, o, u) ==
    HeapOutcome([S.heap EXCEPT ![o] = u.self], S.children, u.exc)

\* One round of TAG_Compound.update's loop, for the key aKey of newTag.
c_update_step(S, newTag, aKey, P) ==
    IF c_first(S.heap, S.children, StrKey(aKey)) = 0
    THEN c_update_absent(S, aKey,
                         json_to_tag(json(getitem(newTag, aKey)), P),
                         Alloc(S.children))
    ELSE c_update_present(
             S, S.children[c_first(S.heap, S.children, StrKey(aKey))],
             value_update(
                 S.heap[S.children[c_first(S.heap, S.children, StrKey(aKey))]],
                 getitem(newTag, aKey)))

RECURSIVE c_update_loop(_, _, _, _)
\* The loop of TAG_Compound.update over the keys left; an exception ends
\* it.
c_update_loop(S, newTag, ks, P) ==
    IF ks = <<>> \/ S.exc # "none" THEN S
    ELSE c_update_loop(c_update_step(S, newTag, Head(ks), P), newTag,
                       Tail(ks), P)

\* TAG_Compound.update.
c_update(H, C, newTag, P) ==
    c_update_loop(HeapOutcome(H, C, "none"), newTag, keys(newTag), P)

\* What an operation leaves in the heap, c and cOp.  An object that
\* nothing holds any more is no tag again.
CompoundDone(op, key, o, out) ==
    /\ out.exc # "full"
    /\ Len(out.children) <= MaxKids
    /\ heap' = [x \in ObjIds |->
                   IF x \in PoolIds \/ \E i \in 1..Len(out.children) :
                                           out.children[i] = x
                   THEN out.heap[x] ELSE Blank]
    /\ children' = out.children
    /\ cOp' = IF op = "setitem"
              THEN [op |-> op, key |-> key, obj |-> o, exc |-> out.exc]
              ELSE [NoCompoundOp EXCEPT !.op = op]
    /\ UNCHANGED <<codecVars, listVars, restVars>>

\* c[key] = v for a tag v
CompoundSetItem ==
    \E key \in Keys, o \in Held :
        CompoundDone("setitem", key, o, c_setitem(heap, children, key, o))

\* c[key] = "hi": __setitem__ wraps a str in a new TAG_String first.
CompoundSetItemStr ==
    \E key \in Keys :
        /\ Alloc(children) # 0
        /\ CompoundDone("setitem", key, Alloc(children),
               c_setitem([heap EXCEPT ![Alloc(children)] =
                             String(None, <<104, 105>>)],
                         children, key, Alloc(children)))

\* c.add(v)
CompoundAdd ==
    \E o \in Held :
        CompoundDone("add", StrKey(<<>>), o,
                     c_add(heap, children, o))

\* del c[key]
CompoundDelItem ==
    \E key \in Keys :
        CompoundDone("delitem", StrKey(<<>>), 0,
                     c_delitem(heap, children, key))

\* c.update(s)
CompoundUpdate ==
    \E s \in Sources :
        CompoundDone("update", StrKey(<<>>), 0,
                     c_update(heap, children, s, profile))

NextCompound ==
    \/ CompoundSetItem
    \/ CompoundSetItemStr
    \/ CompoundAdd
    \/ CompoundDelItem
    \/ CompoundUpdate

SpecCompound == Init /\ [][NextCompound]_vars

\* ------------------------------------------------------------------------
\* Claims about the codec and the scope
\* ------------------------------------------------------------------------

RECURSIVE CompoundsOf(_)
\* The compounds of a tree, at any depth.
CompoundsOf(t) ==
    IF t.id = TAG_COMPOUND
    THEN {t} \cup UNION {CompoundsOf(t.value[i]) : i \in 1..Len(t.value)}
    ELSE IF t.id = TAG_LIST
    THEN UNION {CompoundsOf(t.value[i]) : i \in 1..Len(t.value)}
    ELSE {}

RECURSIVE HasArray(_)
\* Whether a tree holds a tag of an array kind.
HasArray(t) ==
    IF t.id \in ArrayIds THEN TRUE
    ELSE IF t.id \in {TAG_COMPOUND, TAG_LIST}
    THEN \E i \in 1..Len(t.value) : HasArray(t.value[i])
    ELSE FALSE

RECURSIVE WithDtype(_, _)
\* A tree with every TAG_Int_Array and TAG_Long_Array given the dtype order.
WithDtype(t, order) ==
    IF t.id \in {TAG_INT_ARRAY, TAG_LONG_ARRAY} THEN [t EXCEPT !.dtype = order]
    ELSE IF t.id \in {TAG_COMPOUND, TAG_LIST}
    THEN [t EXCEPT !.value = [i \in 1..Len(t.value) |->
                                 WithDtype(t.value[i], order)]]
    ELSE t

\* The reading of a buffer that save wrote, by a load under the settings the
\* save ran under.
RoundTrip ==
    /\ buf.kind = "saved"
    /\ res.kind = "loaded"
    /\ res.little = buf.little

\* C1: for every tree t built through the public API, loading the bytes of
\* t.save(compressed=False) returns a tree r with r.eq(t) true.
C1_RoundTripEq ==
    RoundTrip => (res.out.ok /\ eq(res.out.tag, tree) = "True")

\* C2: load of a buffer that ends before the root Compound is complete
\* fails with an error; it never returns a partial tree.
C2_TruncatedLoadFails ==
    (buf.kind = "truncated" /\ res.kind = "loaded" /\ res.little = buf.little)
        => ~res.out.ok

\* C3: for every buffer, of any length, whose first byte is not 10, load
\* fails with NBTFormatError.
C3_BadMagicIsFormatError ==
    (/\ buf.kind = "raw"
     /\ res.kind = "loaded"
     /\ (Len(buf.data) = 0 \/ buf.data[1] # TAG_COMPOUND))
        => (~res.out.ok /\ res.out.exc = "NBTFormatError")

\* C4: after a block run under littleEndianNBT() is left, normally or by an
\* exception, the whole endian profile is back to big-endian.
C4_RestoredOnEveryExit == (depth = 0) => IsBigEndian(profile)

\* C5: scopes nest as a stack: while an outer littleEndianNBT scope is
\* still active the profile is little-endian, whatever inner scopes have
\* exited.
C5_NestedScopeStaysLittle == (depth > 0) => IsLittleEndian(profile)

\* C6: every save performed inside the littleEndianNBT scope writes the
\* string length prefixes, the primitive payloads, the List and array length
\* prefixes and the Int and Long array elements in little-endian byte
\* order, for tags created before the scope as for tags created inside it.
C6_SaveInScopeIsLittleEndian ==
    (buf.kind = "saved" /\ buf.inScope)
        => buf.data = save(WithDtype(tree, "<"), LittleEndianSettings)

\* The reading, with the big-endian settings in effect, of a buffer that
\* save wrote with the little-endian settings in effect.
CrossRead ==
    /\ buf.kind = "saved"
    /\ buf.little
    /\ res.kind = "loaded"
    /\ ~res.little

\* r.eq(t) is not true of what the load gave: it failed, or eq is "False".
FailsOrDiffers == ~res.out.ok \/ eq(res.out.tag, tree) = "False"

C10_GetAllReturnsOne ==
    (res.kind = "loaded" /\ res.out.ok)
        => \A c \in CompoundsOf(res.out.tag) :
              \A i \in 1..Len(c.value) :
                 Len(get_all(c, c.value[i].name)) = 1

\* ------------------------------------------------------------------------
\* Claims about TAG_Compound and TAG_List as collections
\* ------------------------------------------------------------------------

\* The places of c's children whose name is the text of a key.
NamedPlaces(text) ==
    {i \in 1..Len(children) : heap[children[i]].name = text}

\* C8: with duplicate keys off, after any sequence of c[k]=v, c.add(v),
\* del c[k] and c.update(s) on a Compound that starts empty, no two
\* children of c have the same name, and right after c[k]=v the only child
\* named k is v.
C8_NamesUniqueAndSetItemReplaces ==
    /\ \A i, j \in 1..Len(children) :
          i # j => heap[children[i]].name # heap[children[j]].name
    /\ (cOp.op = "setitem" /\ cOp.exc = "none")
          => /\ Cardinality(NamedPlaces(cOp.key.text)) = 1
             /\ \A i \in NamedPlaces(cOp.key.text) : children[i] = cOp.obj

\* Every element of the list is of the kind list_type names.
ListIsHomogenous ==
    \A i \in 1..Len(lst.value) : lst.value[i].id = lst.list_type

\* A step on a bound list that changes its list_type is an insert or an
\* append on the empty list, or an assignment of the whole value that
\* replaced it.
ListTypeStep ==
    (/\ lst # NoList
     /\ lstOp'.op \notin {"construct", "decode"}
     /\ lst'.list_type # lst.list_type)
        => \/ lstOp'.op \in {"insert", "append"} /\ lst.value = <<>>
           \/ lstOp'.op = "setvalue" /\ lstOp'.exc = "none"

\* C9: in every state reachable by constructing a List, decoding one, and
\* any sequence of insert/append, index assignment, slice assignment and
\* deletion, every element's kind equals the List's list_type; list_type
\* changes only when an element is inserted into an empty List or the whole
\* value is replaced.
C9_ListKindIsListType ==
    /\ [](~lstOp.assignFailed => ListIsHomogenous)
    /\ [][ListTypeStep]_vars

\* The first half of C9 alone: the states that no failed assignment of the
\* whole value led to.
C9_ListedOperationsKeepKind == ~lstOp.assignFailed => ListIsHomogenous

\* ------------------------------------------------------------------------
\* eq and issubset of two tags
\* ------------------------------------------------------------------------

RECURSIVE issubset(_, _)

RECURSIVE compound_issubset_loop(_, _, _)
\* The loop of TAG_Compound.issubset from the i-th key of self on, inside
\* its try: "False" at the first key other does not hold (KeyError), whose
\* issubset raises (the bare except) or is false; "True" at the end.
compound_issubset_loop(self, other, i) ==
    IF i > Len(self.value) THEN "True"
    ELSE IF ~contains(other, self.value[i].name) THEN "False"
    ELSE IF issubset(getitem(self, self.value[i].name),
                     getitem(other, self.value[i].name)) # "True"
    THEN "False"
    ELSE compound_issubset_loop(self, other, i + 1)

RECURSIVE list_issubset_any(_, _, _)
\* any(x.issubset(other[j]) for j in range(len(other.value))) from j on:
\* the generator stops at the first true one, and an exception of
\* issubset leaves any.
list_issubset_any(x, other, j) ==
    IF j > Len(other.value) THEN "False"
    ELSE IF issubset(x, other.value[j]) = "False"
    THEN list_issubset_any(x, other, j + 1)
    ELSE issubset(x, other.value[j])

RECURSIVE list_issubset_loop(_, _, _)
\* The loop of TAG_List.issubset from the i-th element of self on.
list_issubset_loop(self, other, i) ==
    IF i > Len(self.value) THEN "True"
    ELSE IF list_issubset_any(self.value[i], other, 1) = "True"
    THEN list_issubset_loop(self, other, i + 1)
    ELSE list_issubset_any(self.value[i], other, 1)

\* issubset taken for eq: extra keys on the right are not allowed.
issubset_strict(self, other) == eq(self, other)

\* issubset of every class: TAG_Value.issubset is eq (the array classes
\* keep it), TAG_Compound and TAG_List have their own.
issubset(self, other) ==
    CASE self.id = TAG_COMPOUND ->
            IF other.id # TAG_COMPOUND THEN "False"
            ELSE compound_issubset_loop(self, other, 1)
      [] self.id = TAG_LIST ->
            IF other.id # TAG_LIST THEN "False"
            ELSE list_issubset_loop(self, other, 1)
      [] OTHER -> eq(self, other)

\* x:1b and y:"hi", the children of the compounds compared.
ChildX == Scalar(TAG_BYTE, <<120>>, <<1>>)

ChildY == String(<<121>>, <<104, 105>>)

\* The tags that are compared: scalars of several kinds with equal and
\* with different values, strings, arrays, lists and compounds of them.
CmpPool ==
    { Scalar(TAG_BYTE, <<>>, <<1>>),
      Scalar(TAG_BYTE, <<>>, <<2>>),
      Scalar(TAG_SHORT, <<>>, <<0, 1>>),
      Scalar(TAG_DOUBLE, <<>>, DoubleOfInt(1)),
      String(<<>>, <<49>>),
      String(<<>>, <<104, 105>>),
      Array(TAG_INT_ARRAY, <<>>, <<<<0, 0, 0, 1>>>>, BigEndianProfile),
      Array(TAG_BYTE_ARRAY, <<>>, <<>>, BigEndianProfile),
      List(<<>>, <<>>),
      List(<<>>, <<Scalar(TAG_BYTE, <<>>, <<1>>), Scalar(TAG_BYTE, <<>>, <<2>>)>>),
      List(<<>>, <<Scalar(TAG_BYTE, <<>>, <<2>>), Scalar(TAG_BYTE, <<>>, <<1>>),
                   Scalar(TAG_BYTE, <<>>, <<2>>)>>),
      List(<<>>, <<Scalar(TAG_SHORT, <<>>, <<0, 1>>)>>),
      Compound(<<>>, <<>>),
      Compound(<<>>, <<ChildX>>),
      Compound(<<>>, <<ChildX, ChildY>>),
      Compound(<<>>, <<ChildY, ChildX>>),
      Compound(<<>>, <<Scalar(TAG_SHORT, <<120>>, <<0, 1>>)>>),
      Compound(<<>>, <<Array(TAG_INT_ARRAY, <<120>>, <<<<0, 0, 0, 1>>>>,
                             BigEndianProfile)>>) }

\* a and b are taken, and a.eq(b) and a.issubset(b) are called.
Compare ==
    /\ \E a \in CmpPool, b \in CmpPool :
          pair' = [kind |-> "compared", a |-> a, b |-> b,
                   eq |-> eq(a, b), issubset |-> issubset(a, b)]
    /\ UNCHANGED <<codecVars, listVars, compoundVars, store, parse, thr, files>>

NextEq == Compare

SpecEq == Init /\ [][NextEq]_vars

\* ------------------------------------------------------------------------
\* Claims about eq and issubset
\* ------------------------------------------------------------------------

RECURSIVE SameKindEqualPayload(_, _)
\* Two tags have the same kind and equal payloads: scalars (and strings)
\* equal values, arrays equal length and pointwise equal elements, Lists
\* equal length and pairwise equal elements, Compounds the same size and
\* every key of a in b with an equal value.
SameKindEqualPayload(a, b) ==
    /\ a.id = b.id
    /\ CASE a.id = TAG_COMPOUND ->
              /\ Len(a.value) = Len(b.value)
              /\ \A i \in 1..Len(a.value) :
                    /\ contains(b, a.value[i].name)
                    /\ SameKindEqualPayload(getitem(a, a.value[i].name),
                                            getitem(b, a.value[i].name))
         [] a.id = TAG_LIST ->
              /\ Len(a.value) = Len(b.value)
              /\ \A i \in 1..Len(a.value) :
                    SameKindEqualPayload(a.value[i], b.value[i])
         [] OTHER -> a.value = b.value

\* C11: a.eq(b) returns true if and only if a and b have the same kind and
\* equal payloads, and it returns a boolean (never raises) for every pair
\* of tags.
C11_EqIsSameKindEqualPayload ==
    (pair.kind = "compared")
        => /\ pair.eq \in {"True", "False"}
           /\ (pair.eq = "True") <=> SameKindEqualPayload(pair.a, pair.b)

RECURSIVE SubsetAsStated(_, _)
\* a is a subset of b as C12 states it: for Compounds every key of a is in
\* b with a[key] a subset of b[key], for Lists every element of a is a
\* subset of some element of b, for the other tags a.eq(b) is true.
SubsetAsStated(a, b) ==
    CASE a.id = TAG_COMPOUND ->
            /\ b.id = TAG_COMPOUND
            /\ \A i \in 1..Len(a.value) :
                  /\ contains(b, a.value[i].name)
                  /\ SubsetAsStated(getitem(a, a.value[i].name),
                                    getitem(b, a.value[i].name))
      [] a.id = TAG_LIST ->
            /\ b.id = TAG_LIST
            /\ \A i \in 1..Len(a.value) :
                  \E j \in 1..Len(b.value) :
                     SubsetAsStated(a.value[i], b.value[j])
      [] OTHER -> eq(a, b) = "True"

MaxUpdates == 2

\* Most calls of any kind made on them.
MaxStoreOps == 3

IsHolder(x) == x.id \in {TAG_COMPOUND, TAG_LIST}

RECURSIVE Deref(_, _)
\* The tree an object is the root of.
Deref(H, o) ==
    IF IsHolder(H[o])
    THEN [H[o] EXCEPT !.value = [i \in 1..Len(H[o].value) |->
                                    Deref(H, H[o].value[i])]]
    ELSE H[o]

\* What a constructor leaves: the objects, and the one it made.
Planted(H, ref) == [heap |-> H, ref |-> ref]

RECURSIVE Plant(_, _)
RECURSIVE PlantAll(_, _, _)

\* The container is made once the tags it holds are.
PlantHolder(r, tag) ==
    Planted(Append(r.heap, [tag EXCEPT !.value = r.refs]), Len(r.heap) + 1)

PlantNext(r, rest, refs) == PlantAll(r.heap, rest, Append(refs, r.ref))

\* New objects for a sequence of trees.
PlantAll(H, tags, refs) ==
    IF tags = <<>> THEN [heap |-> H, refs |-> refs]
    ELSE PlantNext(Plant(H, Head(tags)), Tail(tags), refs)

\* New objects for a tree of tags: what the constructors called by the
\* caller, or by json_to_tag, leave.
Plant(H, tag) ==
    IF IsHolder(tag) THEN PlantHolder(PlantAll(H, tag.value, <<>>), tag)
    ELSE Planted(Append(H, tag), Len(H) + 1)

\* What a call leaves: the objects, and the exception ("none" when the
\* call returns).
HOut(H, exc) == [heap |-> H, exc |-> exc]

\* The place in c of its first child named key, or 0: __getitem__ and
\* key in self.
h_first(H, c, key) ==
    IF \E i \in 1..Len(H[c].value) : H[H[c].value[i]].name = key
    THEN CHOOSE i \in 1..Len(H[c].value) :
            /\ H[H[c].value[i]].name = key
            /\ \A j \in 1..(i - 1) : H[H[c].value[j]].name # key
    ELSE 0

\* c[key], for a key c holds.
h_getitem(H, c, key) == H[c].value[h_first(H, c, key)]

\* TAG_Compound.__setitem__ once the item has its name: check_value, then
\* the children of another name are kept and the item is appended.
h_setitem_named(H, c, key, o) ==
    IF ~check_value(H[o]) THEN HOut(H, "ValueError")
    ELSE HOut([H EXCEPT ![c].value =
                  Append(SelectSeq(@, LAMBDA x : H[x].name # key), o)],
              "none")

\* TAG_Compound.__setitem__ for a tag object and a text key.
h_setitem(H, c, key, o) ==
    h_setitem_named([H EXCEPT ![o].name = unicode(key)], c, key, o)

\* The end of TAG_List.data_type, list_type being set: the assert, and
\* list(val), a new list of the same objects.
h_list_checked(H, l, refs) ==
    IF \E i \in 1..Len(refs) : H[refs[i]].id # H[l].list_type
    THEN HOut(H, "AssertionError")
    ELSE HOut([H EXCEPT ![l].value = refs], "none")

\* l.value = val on a TAG_List object, val a Python list of tag objects.
h_list_set_value(H, l, refs) ==
    h_list_checked(IF refs # <<>>
                   THEN [H EXCEPT ![l].list_type = H[refs[1]].id] ELSE H,
                   l, refs)

\* TAG_Value.update on a scalar or string object, given what the value
\* setter gave.
h_value_update(H, d, out) == HOut([H EXCEPT ![d] = out.self], out.exc)

RECURSIVE h_update(_, _, _, _)

\* d.update(n) by the class of d: TAG_Compound.update needs newTag.keys(),
\* which only a TAG_Compound has; TAG_List keeps TAG_Value.update, and so
\* takes over the objects n holds.
h_tag_update(H, d, n, P) ==
    CASE H[d].id = TAG_COMPOUND ->
            IF H[n].id = TAG_COMPOUND THEN h_update(H, d, n, P)
            ELSE HOut(H, "AttributeError")
      [] H[d].id = TAG_LIST /\ IsHolder(H[n]) ->
            h_list_set_value(H, d, H[n].value)
      [] H[d].id \notin {TAG_COMPOUND, TAG_LIST} ->
            h_value_update(H, d, value_update(H[d], Deref(H, n)))

\* self[aKey] = newSubTag, newSubTag being made of new objects.
h_update_store(r, t, aKey) == h_setitem(r.heap, t, aKey, r.ref)

\* TAG_Compound.update for a key t does not hold, given what json_to_tag
\* made of the json of s[aKey].
h_update_absent(H, t, aKey, parsed) ==
    IF parsed.exc # "none" THEN HOut(H, parsed.exc)
    ELSE IF parsed.self.name # aKey /\ ~contains(parsed.self, aKey)
    THEN HOut(H, "KeyError")
    ELSE h_update_store(Plant(H, IF parsed.self.name # aKey
                                 THEN getitem(parsed.self, aKey)
                                 ELSE parsed.self),
                        t, aKey)

\* One round of the loop of TAG_Compound.update.
h_update_step(H, t, s, aKey, P) ==
    IF h_first(H, t, aKey) = 0
    THEN h_update_absent(H, t, aKey,
                         json_to_tag(json(Deref(H, h_getitem(H, s, aKey))), P))
    ELSE h_tag_update(H, h_getitem(H, t, aKey), h_getitem(H, s, aKey), P)

RECURSIVE h_update_loop(_, _, _, _, _)
\* The loop of TAG_Compound.update over the keys newTag.keys() gave.
h_update_loop(S, t, s, ks, P) ==
    IF ks = <<>> \/ S.exc # "none" THEN S
    ELSE h_update_loop(h_update_step(S.heap, t, s, Head(ks), P),
                       t, s, Tail(ks), P)

\* TAG_Compound.update on objects.
h_update(H, t, s, P) ==
    h_update_loop(HOut(H, "none"), t, s,
                  [i \in 1..Len(H[s].value) |-> H[H[s].value[i]].name], P)

\* The names of the children of a compound object.
h_names(H, c) == {H[H[c].value[i]].name : i \in 1..Len(H[c].value)}

RECURSIVE py_eq(_, _, _)
\* x == y of Python for two tag objects: the same object, or two
\* TAG_Compounds, which as Mappings are equal when dict(x.items()) ==
\* dict(y.items()); the other classes define no __eq__.
py_eq(H, x, y) ==
    \/ x = y
    \/ /\ H[x].id = TAG_COMPOUND
       /\ H[y].id = TAG_COMPOUND
       /\ h_names(H, x) = h_names(H, y)
       /\ \A k \in h_names(H, x) :
             py_eq(H, h_getitem(H, x, k), h_getitem(H, y, k))

\* list.index(x): the first place whose element == x.
h_index(H, refs, x) ==
    CHOOSE p \in 1..Len(refs) :
        /\ py_eq(H, refs[p], x)
        /\ \A q \in 1..(p - 1) : ~py_eq(H, refs[q], x)

\* del at a place of a Python list.
DelAt(refs, p) == SubSeq(refs, 1, p - 1) \o SubSeq(refs, p + 1, Len(refs))

\* TAG_Compound.__delitem__:
\* self.value.__delitem__(self.value.index(self[key])).
h_delitem(H, c, key) ==
    IF h_first(H, c, key) = 0 THEN HOut(H, "KeyError")
    ELSE HOut([H EXCEPT ![c].value =
                  DelAt(@, h_index(H, @, h_getitem(H, c, key)))],
              "none")

\* The pairs (t, s) of compounds the caller constructs: s holds a string
\* with a newline, or with a backslash, under a key t lacks; both hold a
\* list under the same key; s holds a scalar t has and a compound t lacks;
\* t holds two empty compounds; both hold a compound under the same key.
StorePairs ==
    { <<Compound(<<>>, <<>>),
        Compound(<<>>, <<String(<<107>>, <<10>>)>>)>>,
      <<Compound(<<>>, <<>>),
        Compound(<<>>, <<String(<<107>>, <<92>>)>>)>>,
      <<Compound(<<>>, <<List(<<108>>, <<Scalar(TAG_BYTE, <<>>, <<1>>)>>)>>),
        Compound(<<>>, <<List(<<108>>, <<Scalar(TAG_BYTE, <<>>, <<2>>)>>)>>)>>,
      <<Compound(<<>>, <<Scalar(TAG_BYTE, <<97>>, <<1>>)>>),
        Compound(<<>>, <<Scalar(TAG_BYTE, <<97>>, <<2>>),
                         Compound(<<98>>, <<ChildX>>)>>)>>,
      <<Compound(<<>>, <<Compound(<<97>>, <<>>), Compound(<<98>>, <<>>)>>),
        Compound(<<>>, <<Compound(<<97>>, <<>>)>>)>>,
      <<Compound(<<>>, <<Compound(<<99>>, <<ChildX>>)>>),
        Compound(<<>>, <<Compound(<<99>>, <<Scalar(TAG_BYTE, <<120>>, <<2>>),
                                            ChildY>>)>>)>> }

\* The keys of del t[key].
StoreKeys == {<<97>>, <<98>>, <<99>>, <<107>>, <<108>>}

\* What is kept of a call on t: the call, its key, its exception, the tree
\* of t and the children of t before it.
StoreOp(op, key, exc, before, kids) ==
    [op |-> op, key |-> key, exc |-> exc, before |-> before, kids |-> kids]

\* The two compounds are constructed.
StoreBuilt(r, t) ==
    [kind |-> "built", heap |-> r.heap, t |-> t, s |-> r.ref,
     updates |-> 0, ops |-> 0, first |-> NoTag,
     last |-> StoreOp("build", <<>>, "none", NoTag, <<>>)]

StoreBuildS(r, pr) == StoreBuilt(Plant(r.heap, pr[2]), r.ref)

StoreBuild ==
    /\ store = NoStore
    /\ \E pr \in StorePairs : store' = StoreBuildS(Plant(<<>>, pr[1]), pr)
    /\ UNCHANGED <<codecVars, listVars, compoundVars, pair, parse, thr, files>>

\* The store after a call on t that left out; first keeps the tree of t
\* after the first update.
StoreAfter(op, key, out, isUpdate) ==
    [store EXCEPT
        !.heap = out.heap,
        !.ops = @ + 1,
        !.updates = IF isUpdate THEN @ + 1 ELSE @,
        !.first = IF isUpdate /\ store.updates = 0
                  THEN Deref(out.heap, store.t) ELSE @,
        !.last = StoreOp(op, key, out.exc, Deref(store.heap, store.t),
                         store.heap[store.t].value)]

\* t.update(s); a failed call ends the run of calls.
StoreUpdate ==
    /\ store # NoStore
    /\ store.last.exc = "none"
    /\ store.ops < MaxStoreOps
    /\ store.updates < MaxUpdates
    /\ store' = StoreAfter("update", <<>>,
                           h_update(store.heap, store.t, store.s, profile),
                           TRUE)
    /\ UNCHANGED <<codecVars, listVars, compoundVars, pair, parse, thr, files>>

\* The scalars and strings inside an object, at any depth.
RECURSIVE LeavesIn(_, _)
LeavesIn(H, o) ==
    IF IsHolder(H[o])
    THEN UNION {LeavesIn(H, H[o].value[i]) : i \in 1..Len(H[o].value)}
    ELSE {o}

\* x.value = 9, or x.value = u"z", for a tag x inside s.
StoreMutate ==
    /\ store # NoStore
    /\ store.last.exc = "none"
    /\ store.ops < MaxStoreOps
    /\ \E x \in LeavesIn(store.heap, store.s) :
          store' = StoreAfter("mutate", <<>>,
                      HOut([store.heap EXCEPT ![x].value =
                               IF store.heap[x].id = TAG_STRING
                               THEN <<122>> ELSE <<9>>],
                           "none"),
                      FALSE)
    /\ UNCHANGED <<codecVars, listVars, compoundVars, pair, parse, thr, files>>

\* del t[key]
StoreDelItem ==
    /\ store # NoStore
    /\ store.last.exc = "none"
    /\ store.ops < MaxStoreOps
    /\ \E key \in StoreKeys :
          store' = StoreAfter("delitem", key,
                              h_delitem(store.heap, store.t, key), FALSE)
    /\ UNCHANGED <<codecVars, listVars, compoundVars, pair, parse, thr, files>>

NextStore ==
    \/ StoreBuild
    \/ StoreUpdate
    \/ StoreMutate
    \/ StoreDelItem

SpecStore == Init /\ [][NextStore]_vars

\* C13: update is idempotent: when t.update(s) is called twice in a row and
\* both calls return, the tree of t after the second call is the tree of t
\* after the first, also for a source holding a string with a newline or a
\* backslash under a key t lacks.
C13_UpdateIdempotent ==
    (/\ store # NoStore
     /\ store.ops = 2
     /\ store.updates = 2
     /\ store.last.exc = "none")
        => Deref(store.heap, store.t) = store.first

RECURSIVE Inside(_, _)
\* The tag objects inside a container object, at any depth.
Inside(H, o) ==
    IF IsHolder(H[o])
    THEN UNION {{H[o].value[i]} \cup Inside(H, H[o].value[i]) :
                    i \in 1..Len(H[o].value)}
    ELSE {}

\* C14: after t.update(s) has returned, no tag inside t is the same object
\* as a tag inside s, and a later assignment to a tag inside s leaves the
\* tree of t as it was.
C14_UpdateSharesNoObject ==
    /\ (/\ store # NoStore
        /\ store.last.op = "update"
        /\ store.last.exc = "none")
          => Inside(store.heap, store.t) \cap Inside(store.heap, store.s) = {}
    /\ (/\ store # NoStore
        /\ store.last.op = "mutate"
        /\ store.updates >= 1)
          => Deref(store.heap, store.t) = store.last.before

\* C20: when del c[k] returns, c has lost exactly its child named k: its
\* children are the ones it had, in the order it had them, without the one
\* named k; also when c has another child compound with the same contents.
C20_DelRemovesTheNamedChild ==
    (/\ store # NoStore
     /\ store.last.op = "delitem"
     /\ store.last.exc = "none")
        => store.heap[store.t].value =
              SelectSeq(store.last.kids,
                        LAMBDA x : store.heap[x].name # store.last.key)

\* ------------------------------------------------------------------------
\* json_to_tag, one character at a time
\* ------------------------------------------------------------------------

\* The longest run of characters put behind a beginning of a text.
MaxText == 3

\* The characters of such a run: the double quote, the backslash, the
\* brackets and braces, the comma, the colon and a letter.
JsonChars == {34, 92, 123, 125, 91, 93, 44, 58, 97}

RECURSIVE RunsOf(_)
\* The runs of exactly n characters.
RunsOf(n) ==
    IF n = 0 THEN {<<>>}
    ELSE {Append(r, c) : r \in RunsOf(n - 1), c \in JsonChars}

\* The beginnings: nothing; an open root; a name in the root; a name and
\* an open string literal.
JsonHeads == {<<>>, <<123>>, <<123, 97, 58>>, <<123, 97, 58, 34>>}

\* The trees whose json is parsed back: roots without a name holding a
\* scalar, a string (plain, with a newline, a double quote, a backslash),
\* a compound and a list, and a root with a name.
JsonTrees ==
    { Compound(<<>>, <<ChildX>>),
      Compound(<<>>, <<ChildX, ChildY>>),
      Compound(<<>>, <<String(<<107>>, <<10>>)>>),
      Compound(<<>>, <<String(<<107>>, <<97, 34>>)>>),
      Compound(<<>>, <<String(<<107>>, <<92>>)>>),
      Compound(<<>>, <<Compound(<<99>>, <<ChildX>>)>>),
      Compound(<<>>, <<List(<<108>>, <<Scalar(TAG_BYTE, <<>>, <<1>>),
                                       Scalar(TAG_BYTE, <<>>, <<2>>)>>)>>),
      Compound(<<82>>, <<ChildX>>) }

\* The call json_to_tag(text) begins; tree is the tag the text is the json
\* of, if it is of one.
JsonBegun(text, t) ==
    [kind |-> "parsing", text |-> text, tree |-> t, i |-> 0,
     st |-> ParserStart, done |-> FALSE, out |-> Outcome(NoTag, "none")]

JsonStart ==
    /\ parse = NoParse
    /\ \/ \E h \in JsonHeads, n \in 0..MaxText : \E r \in RunsOf(n) :
             parse' = JsonBegun(h \o r, NoTag)
       \/ \E t \in JsonTrees : parse' = JsonBegun(json(t), t)
    /\ UNCHANGED <<codecVars, listVars, compoundVars, pair, store, thr, files>>

\* One round of the loop of json_to_tag.
JsonChar ==
    /\ parse # NoParse
    /\ ~parse.done
    /\ parse.st.exc = "none"
    /\ parse.i < Len(parse.text)
    /\ parse' = [parse EXCEPT
                    !.i = @ + 1,
                    !.st = json_to_tag_step(parse.text, parse.i,
                                            parse.text[parse.i + 1],
                                            parse.st, profile)]
    /\ UNCHANGED <<codecVars, listVars, compoundVars, pair, store, thr, files>>

\* The loop is over, or left by an exception: the last store, and the
\* return.
JsonEnd ==
    /\ parse # NoParse
    /\ ~parse.done
    /\ parse.st.exc # "none" \/ parse.i = Len(parse.text)
    /\ parse' = [parse EXCEPT
                    !.done = TRUE,
                    !.out = json_to_tag_result(
                                json_to_tag_last(parse.st, profile))]
    /\ UNCHANGED <<codecVars, listVars, compoundVars, pair, store, thr, files>>

NextJson ==
    \/ JsonStart
    \/ JsonChar
    \/ JsonEnd

SpecJson == Init /\ [][NextJson]_vars

\* C15: for every tree t whose root is a compound, with a name or without,
\* also when it holds strings with a newline, a double quote or a
\* backslash, json_to_tag(t.json()) returns a tag r with r.eq(t) true.
C15_JsonRoundTrip ==
    (/\ parse # NoParse
     /\ parse.done
     /\ parse.tree # NoTag)
        => /\ parse.out.exc = "none"
           /\ eq(parse.out.self, parse.tree) = "True"

RECURSIVE Unclosed(_, _, _, _)
\* What is left open when the brackets and braces of a text are matched,
\* those inside string literals apart: the open ones, or <<0>> after one
\* that closes nothing or the wrong one.
Unclosed(text, open, quoted, escaped) ==
    IF text = <<>> THEN open
    ELSE IF escaped THEN Unclosed(Tail(text), open, quoted, FALSE)
    ELSE IF Head(text) = 92 THEN Unclosed(Tail(text), open, quoted, TRUE)
    ELSE IF Head(text) = 34 THEN Unclosed(Tail(text), open, ~quoted, FALSE)
    ELSE IF quoted THEN Unclosed(Tail(text), open, quoted, FALSE)
    ELSE IF Head(text) \in {123, 91}
    THEN Unclosed(Tail(text), Append(open, Head(text)), quoted, FALSE)
    ELSE IF Head(text) \in {125, 93}
    THEN IF open # <<>> /\ open[Len(open)] = Head(text) - 2
         THEN Unclosed(Tail(text), SubSeq(open, 1, Len(open) - 1), quoted,
                       FALSE)
         ELSE <<0>>
    ELSE Unclosed(Tail(text), open, quoted, FALSE)

\* C16: json_to_tag of a text whose brackets or braces are not balanced
\* fails with JSONFormatError and returns no tree.
C16_UnbalancedIsJSONFormatError ==
    (/\ parse # NoParse
     /\ parse.done
     /\ Unclosed(parse.text, <<>>, FALSE, FALSE) # <<>>)
        => parse.out.exc = "JSONFormatError"

\* The literal of the text that ends at index i and began at startQuote.
LiteralAt(p) == PySlice(p.text, p.st.startQuote, p.i + 1)

\* C19: a round of the loop that begins, goes on inside or ends a string
\* literal leaves the stack of containers and the pending name as they
\* were; the round that ends the literal makes the whole literal, quotes
\* included, the pending value, and that value is read as one TAG_String.
C19_LiteralStep ==
    (/\ parse # NoParse
     /\ parse' # parse
     /\ ~parse'.done
     /\ parse.st.startQuote # 0 - 1 \/ parse'.st.startQuote # 0 - 1)
        => /\ parse'.st.exc = "none"
           /\ parse'.st.stackTag = parse.st.stackTag
           /\ parse'.st.name = parse.st.name
           /\ (parse.st.startQuote # 0 - 1 /\ parse'.st.startQuote = 0 - 1)
                => /\ parse'.st.native = TextNative(LiteralAt(parse))
                   /\ _jsonParser_jsonToTag(LiteralAt(parse)).id = TAG_STRING

C19_StringLiteralIsOpaque == [][C19_LiteralStep]_vars

\* A literal holding a colon and a closing brace has ended, below a name
\* in the root.
C19_Witness ==
    /\ parse # NoParse
    /\ ~parse.done
    /\ parse.st.name = <<97>>
    /\ Len(parse.st.stackTag) = 1
    /\ parse.st.startQuote = 0 - 1
    /\ parse.st.native = TextNative(<<34, 58, 125, 34>>)

\* ------------------------------------------------------------------------
\* Two threads and the module's one set of formats
\* ------------------------------------------------------------------------
\* string_len_fmt, write_string and the fmt and dtype attributes of the
\* classes are globals of the module: the threads of a process share
\* profile.  Each thread has its own with blocks and its own tree.

Threads == {1, 2}

\* Most calls of save and load the two threads make.
MaxCalls == 3

\* The trees a thread works on: the length of a string, and of the root's
\* name, is written in the byte order at hand.
ThreadTrees ==
    { Compound(<<>>, <<ChildY>>), Compound(<<82>>, <<ChildX>>) }

\* The settings a thread that runs alone saves and loads with: those of
\* the scope when it is inside one, the big-endian ones when it is not.
Alone(inside) == IF inside THEN LittleEndianSettings ELSE BigEndianProfile

\* What is kept of a thread's call: what it returned and what it returns
\* when the thread runs alone.
ThreadCall(k, op, got, alone) ==
    [thread |-> k, op |-> op, got |-> got, alone |-> alone]

\* The two threads start, each with a tree of its own.
ThreadsStart ==
    /\ thr = NoThreads
    /\ \E t \in [Threads -> ThreadTrees] :
          thr' = [kind |-> "running", tree |-> t,
                  depth |-> [k \in Threads |-> 0], calls |-> 0,
                  last |-> ThreadCall(0, "none", <<>>, <<>>)]
    /\ UNCHANGED <<codecVars, listVars, compoundVars, pair, store, parse,
                   files>>

\* Thread k, inside no scope, enters with littleEndianNBT().
ThreadEnter(k) ==
    /\ thr # NoThreads
    /\ thr.depth[k] = 0
    /\ profile' = littleEndianNBT_before(profile)
    /\ thr' = [thr EXCEPT !.depth[k] = @ + 1]
    /\ UNCHANGED <<depth, tree, buf, res, listVars, compoundVars, pair, store,
                   parse, files>>

\* The with block of thread k ends.
ThreadExit(k) ==
    /\ thr # NoThreads
    /\ thr.depth[k] > 0
    /\ profile' = littleEndianNBT_after(profile)
    /\ thr' = [thr EXCEPT !.depth[k] = @ - 1]
    /\ UNCHANGED <<depth, tree, buf, res, listVars, compoundVars, pair, store,
                   parse, files>>

\* Thread k saves its tree.
ThreadSave(k) ==
    /\ thr # NoThreads
    /\ thr.calls < MaxCalls
    /\ thr' = [thr EXCEPT
                  !.calls = @ + 1,
                  !.last = ThreadCall(k, "save",
                               save(thr.tree[k], profile),
                               save(thr.tree[k], Alone(thr.depth[k] > 0)))]
    /\ UNCHANGED <<codecVars, listVars, compoundVars, pair, store, parse,
                   files>>

\* The bytes of thread k's tree in the byte order of thread k's scope.
OwnBytes(k) == save(thr.tree[k], Alone(thr.depth[k] > 0))

\* Thread k loads a buffer written in the byte order of its scope.
ThreadLoad(k) ==
    /\ thr # NoThreads
    /\ thr.calls < MaxCalls
    /\ thr' = [thr EXCEPT
                  !.calls = @ + 1,
                  !.last = ThreadCall(k, "load",
                               load(OwnBytes(k), profile),
                               load(OwnBytes(k), Alone(thr.depth[k] > 0)))]
    /\ UNCHANGED <<codecVars, listVars, compoundVars, pair, store, parse,
                   files>>

NextThreads ==
    \/ ThreadsStart
    \/ \E k \in Threads : ThreadEnter(k)
    \/ \E k \in Threads : ThreadExit(k)
    \/ \E k \in Threads : ThreadSave(k)
    \/ \E k \in Threads : ThreadLoad(k)

SpecThreads == Init /\ [][NextThreads]_vars

\* C17: under every interleaving of two threads with disjoint trees, each
\* save and each load of a thread returns what it returns when the thread
\* runs alone: little-endian inside the thread's own littleEndianNBT
\* scope, big-endian outside.
C17_ThreadsUseOwnEndianness ==
    (thr # NoThreads /\ thr.last.op # "none")
        => thr.last.got = thr.last.alone

\* ------------------------------------------------------------------------
\* The file objects load(filename) and save(filename) open
\* ------------------------------------------------------------------------
\* Neither function calls close() or uses a with statement: a file object
\* is closed by its deallocation alone, which comes once nothing refers to
\* it, at once or at a later collection, as the interpreter manages
\* memory.  A call that ends with an exception leaves its frame, with its
\* local variables, referred to by the traceback.

\* Most calls with a filename.
MaxFiles == 3

\* What can go wrong in a call.
LoadFaults == {"none", "read", "decode"}

SaveFaults == {"none", "write"}

\* The file object of a call that has ended.  held: a local variable of
\* the call's frame still names the file object; frame: the frame is kept
\* by a traceback; open: the file has not been closed.
Handle(op, fault, held, open) ==
    [op |-> op, fault |-> fault, held |-> held, frame |-> fault # "none",
     open |-> open]

\* Something still refers to the file object.
Referenced(h) == h.held /\ h.frame

\* The call is over and its file object is one more of those made.
FilesWith(h) ==
    [kind |-> "used",
     handles |-> IF files = NoFiles THEN <<h>> ELSE Append(files.handles, h)]

FilesCount == IF files = NoFiles THEN 0 ELSE Len(files.handles)

\* load(filename): buf = file(filename, "rb"), then buf = buf.read(), which
\* leaves no name for the file object unless read() raises; then
\* _load_buffer, which may raise NBTFormatError.  A file object nothing
\* refers to is deallocated at once or later.
FileLoad ==
    /\ FilesCount < MaxFiles
    /\ \E fault \in LoadFaults, collected \in BOOLEAN :
          files' = FilesWith(Handle("load", fault, fault = "read",
                                    fault = "read" \/ ~collected))
    /\ UNCHANGED <<codecVars, listVars, compoundVars, pair, store, parse, thr>>

\* tag.save(filename): f = file(filename, "wb"), then f.write(data), and
\* the return, or the exception of write().  f names the file object to
\* the end; the frame goes with the return, and stays with a traceback.
FileSave ==
    /\ FilesCount < MaxFiles
    /\ \E fault \in SaveFaults, collected \in BOOLEAN :
          files' = FilesWith(Handle("save", fault, TRUE,
                                    fault = "write" \/ ~collected))
    /\ UNCHANGED <<codecVars, listVars, compoundVars, pair, store, parse, thr>>

\* The caller has handled the exception and the traceback is gone, and the
\* frame with it.
DropTraceback ==
    /\ files # NoFiles
    /\ \E i \in 1..Len(files.handles) :
          /\ files.handles[i].frame
          /\ files' = [files EXCEPT !.handles[i].frame = FALSE]
    /\ UNCHANGED <<codecVars, listVars, compoundVars, pair, store, parse, thr>>

\* A file object nothing refers to is deallocated, and so closed.
Collect ==
    /\ files # NoFiles
    /\ \E i \in 1..Len(files.handles) :
          /\ files.handles[i].open
          /\ ~Referenced(files.handles[i])
          /\ files' = [files EXCEPT !.handles[i].open = FALSE]
    /\ UNCHANGED <<codecVars, listVars, compoundVars, pair, store, parse, thr>>

NextFiles ==
    \/ FileLoad
    \/ FileSave
    \/ DropTraceback
    \/ Collect

SpecFiles == Init /\ [][NextFiles]_vars

\* C18: a call of load(filename) or save(filename) that has ended, by a
\* return or by a read, decode or write error, has left the file it
\* opened closed.
C18_NoHandleLeftOpen ==
    files # NoFiles =>
        \A i \in 1..Len(files.handles) : ~files.handles[i].open

====
